---------------------------- MODULE Spec2Model ----------------------------
(***************************************************************************)
(* A model of the audio pipeline of audio-flow-rs.                         *)
(*                                                                         *)
(*   RingBuffer             src-tauri/src/modules/audio/capture.rs         *)
(*   WebSocketClient        src-tauri/src/modules/network/websocket.rs     *)
(*   ScribeClient           src-tauri/src/modules/network/scribe_client.rs *)
(*   VoiceActivityDetector  src-tauri/src/modules/audio/vad.rs             *)
(*   AudioResampler,                                                       *)
(*   BatchResampler         src-tauri/src/modules/audio/resampler.rs       *)
(*   AudioCapturer          src-tauri/src/modules/audio/capture.rs         *)
(*   the commands           src-tauri/src/commands.rs                      *)
(*   AppState               src-tauri/src/state.rs                         *)
(*                                                                         *)
(* Every component is modelled on the same variables by several            *)
(* specifications: Spec (RingBuffer, one call at a time), SpecConc         *)
(* (RingBuffer, one writer thread and one reader thread, step by step),    *)
(* SpecWs (WebSocketClient), SpecWsFair (SpecWs with the fairness of the   *)
(* tokio timer and executor), SpecScribe (ScribeClient: connecting,        *)
(* sending and closing), SpecScribeRx (ScribeClient: decoding inbound      *)
(* messages through receive_event), SpecScribeRun (ScribeClient: run() and *)
(* try_receive), SpecVad (VoiceActivityDetector), SpecResampler (the       *)
(* resamplers), SpecResamplerFair (SpecResampler with a call in progress   *)
(* running on), SpecCapturer (AudioCapturer and its audio thread),         *)
(* SpecScribeRunFair (SpecScribeRun with the fairness of the executor),    *)
(* SpecAvail (RingBuffer: available() and clear() beside the writer and    *)
(* the reader), SpecConfig (the construction of the clients), SpecListen   *)
(* (the recording commands on two tasks), SpecCommands (the network        *)
(* commands on two tasks over one ScribeClient) and SpecCommandsFair       *)
(* (SpecCommands with the fairness of the executor, the mutex and the      *)
(* server).                                                                *)
(***************************************************************************)
EXTENDS Integers, Sequences, FiniteSets, TLC

VARIABLES
    \* RingBuffer (capture.rs:84-89)
    buffer,       \* Vec<f32> behind the mutex, indexed 0 .. Capacity-1
    write_pos,    \* AtomicUsize
    read_pos,     \* AtomicUsize
    \* history of the RingBuffer calls (not program state)
    offered,      \* number of samples handed to write so far
    accepted,     \* the samples write accepted, in order
    returned,     \* the samples read returned, in order
    stored,       \* the samples accepted and neither read nor cleared yet
    cleared,      \* clear() has been called
    last,         \* the most recent completed call and what it returned
    \* the two threads of SpecConc
    lock,         \* holder of the Mutex around buffer: "none", "writer", "reader"
    wt,           \* writer thread: position in write and its locals
    rt,           \* reader thread: position in read and its locals
    \* WebSocketClient (websocket.rs:96-111)
    ws_stream,    \* Option<WebSocketStream>: 0 is None, k the stream opened
                  \* by the k-th connect() call
    ws_state,     \* Arc<Mutex<ConnectionState>>
    api_key,      \* Arc<Mutex<Option<String>>>: "none", "valid" or "malformed"
    \* the call in progress on the client (&mut self: one at a time)
    ws_pc,        \* "idle", "connecting" (in timeout(connect_async).await)
                  \* or "receiving" (in stream.next().await)
    elapsed,      \* seconds spent in the pending connect_async
    \* history of the WebSocketClient calls (not program state)
    attempts,     \* number of connect() calls so far
    wire,         \* frames put on the wire, oldest first: <<stream, kind>>
    closes,       \* the streams on which receive() returned Close, in order
    wslast,       \* the most recent call, its result and the state it found
    \* ScribeClient (scribe_client.rs:102-119)
    cfg_key,      \* config.api_key: "none", "valid" or "malformed"
    session_id,   \* Arc<Mutex<Option<String>>>, None as NoField
    last_transcript, \* Arc<Mutex<Option<String>>>, None as NoField
    partial_buffer,  \* Arc<Mutex<String>>, as the sequence of its texts
    sc_running,   \* Arc<AtomicBool>
    event_q,      \* the events in the mpsc channel event_tx -> event_rx
    \* the ScribeClient method in progress (&mut self: one at a time)
    sc_pc,        \* "idle", or the method and the point it has reached
    held,         \* the event run() holds for event_tx.send, <<>> if none
    \* history of the ScribeClient calls (not program state)
    inbound,      \* the messages ws_client.receive() returned, in order
    disc_at,      \* Len(inbound) when disconnect() last returned
    obtained,     \* the events handed to the caller, in order
    sclast,       \* the most recent method, its result and what it found
    \* VoiceActivityDetector (vad.rs:53-63)
    vad_config,   \* VadConfig
    vad,          \* state, smoothed_energy, silence_frames, speech_frames
    \* history of the VoiceActivityDetector calls (not program state)
    vad_cls,      \* is_speech of every frame given to detect, in order
    vad_out,      \* what every detect returned, in order
    vad_fresh,    \* a detector constructed at the last reset(), fed the same
    vadlast,      \* the most recent call
    \* AudioResampler / BatchResampler (resampler.rs:12-21, 114-117)
    rs_equal,     \* input_rate == output_rate: resampler is None, chunk_size 0
    br_buffer,    \* BatchResampler::buffer
    \* the BatchResampler::process call in progress
    br_pc,        \* "idle" or "loop" (at the while condition)
    br_output,    \* the local `output` of process
    \* history of the resampler calls (not program state)
    rs_fed,       \* number of samples given to BatchResampler::process so far
    rs_drained,   \* number of samples removed from the buffer so far
    rslast,       \* the most recent call, its result and what it found
    \* AudioCapturer (capture.rs:164-171); its ring_buffer is the RingBuffer
    cap_device,   \* Option<Device>: a device has been selected
    cap_stream,   \* Option<Stream>: 0 is None, k the k-th stream built
    is_running,   \* Arc<AtomicBool>
    \* the AudioCapturer method in progress (&mut self: one at a time)
    cap_pc,       \* "idle", "start_built", "start_played", "stop_stored",
                  \* or "dropped" once the capturer has been dropped
    cap_local,    \* the local `stream` of start(), 0 if none
    \* the audio thread
    cb,           \* the data callback: its position and what it loaded
    \* history of the AudioCapturer (not program state)
    cap_builds,   \* number of streams built so far
    cap_epoch,    \* 1 + the number of stop() calls so far; every sample
                  \* captured is the epoch in which its callback began
    cap_cbs,      \* number of callback invocations so far
    caplast,      \* the most recent method and its result
    cblast,       \* the most recent callback invocation that has returned
    \* two more threads on the RingBuffer (SpecAvail)
    at,           \* a thread in available(): its position, what it loaded
                  \* and, once it has returned, what it returned
    ct,           \* a thread in clear(): its position
    \* WebSocketClient::config (websocket.rs:104)
    ws_cfg,       \* the WebSocketConfig the client holds
    cfg_given,    \* the constructor that made the client and the
                  \* configuration it was given (not program state)
    \* AppState (state.rs:10-15) and the command tasks (commands.rs)
    app_recording, \* AppState::is_recording, Arc<AtomicBool>
    app_connected, \* AppState::is_connected, Arc<AtomicBool>
    sess_lock,    \* holder of the TauriMutex<ScribeClient>, 0 if free
    cmd           \* the command each task is executing and how far it is

ringVars == <<buffer, write_pos, read_pos, offered, accepted, returned,
              stored, cleared, last, lock, wt, rt>>
wsVars   == <<ws_stream, ws_state, api_key, ws_pc, elapsed, attempts, wire,
              closes, wslast>>
scVars   == <<cfg_key, session_id, last_transcript, partial_buffer,
              sc_running, event_q, sc_pc, held, inbound, disc_at, obtained,
              sclast>>
vadVars  == <<vad_config, vad, vad_cls, vad_out, vad_fresh, vadlast>>
rsVars   == <<rs_equal, br_buffer, br_pc, br_output, rs_fed, rs_drained,
              rslast>>
capVars  == <<cap_device, cap_stream, is_running, cap_pc, cap_local, cb,
              cap_builds, cap_epoch, cap_cbs, caplast, cblast>>
vars     == <<buffer, write_pos, read_pos, offered, accepted, returned,
              stored, cleared, last, lock, wt, rt,
              ws_stream, ws_state, api_key, ws_pc, elapsed, attempts, wire,
              closes, wslast,
              cfg_key, session_id, last_transcript, partial_buffer,
              sc_running, event_q, sc_pc, held, inbound, disc_at, obtained,
              sclast,
              vad_config, vad, vad_cls, vad_out, vad_fresh, vadlast,
              rs_equal, br_buffer, br_pc, br_output, rs_fed, rs_drained,
              rslast,
              cap_device, cap_stream, is_running, cap_pc, cap_local, cb,
              cap_builds, cap_epoch, cap_cbs, caplast, cblast,
              at, ct, ws_cfg, cfg_given,
              app_recording, app_connected, sess_lock, cmd>>
obsVars  == <<at, ct>>
cfgVars  == <<ws_cfg, cfg_given>>
appVars  == <<app_recording, app_connected, sess_lock, cmd>>

\* What the steps of one component leave alone.
nonRingVars == <<wsVars, scVars, vadVars, rsVars, capVars, obsVars,
                 cfgVars, appVars>>
nonWsVars   == <<ringVars, scVars, vadVars, rsVars, capVars, obsVars,
                 cfgVars, appVars>>
audioVars   == <<ringVars, vadVars, rsVars, capVars, obsVars,
                 cfgVars, appVars>>
nonVadVars  == <<ringVars, wsVars, scVars, rsVars, capVars, obsVars,
                 cfgVars, appVars>>
nonRsVars   == <<ringVars, wsVars, scVars, vadVars, capVars, obsVars,
                 cfgVars, appVars>>
nonCapVars  == <<wsVars, scVars, vadVars, rsVars, obsVars,
                 cfgVars, appVars>>
nonObsVars  == <<wsVars, scVars, vadVars, rsVars, capVars,
                 cfgVars, appVars>>
nonCfgVars  == <<ringVars, vadVars, rsVars, capVars, obsVars, appVars>>
nonAppVars  == <<ringVars, vadVars, rsVars, capVars, obsVars, cfgVars>>
\* The history and the threads of the RingBuffer specifications.
ringHist    == <<offered, accepted, returned, stored, cleared, last, lock,
                wt, rt>>

----------------------------------------------------------------------------
(* Bounds of the model *)

\* RingBuffer::new(capacity_samples)
Capacity == 4
\* longest slice handed to one write call
MaxWriteLen == 5
\* total number of samples handed to write in one behaviour
MaxOffered == 7
\* largest size asked of one read call
MaxReadSize == 3
\* number of connect() calls in one behaviour
MaxConnects == 2
\* number of frames sent successfully in one behaviour
MaxSends == 1
\* frames a ScribeClient sends in one behaviour
MaxSessionSends == 2
\* messages a ScribeClient receives in one behaviour
MaxInbound == 2
\* slots of the ScribeClient event channel (the program has 100, which makes
\* no difference to the order of the events)
EventQueueCapacity == 1
\* detect calls between two resets
MaxFrames == 5
\* largest silence_timeout_frames of a VadConfig
MaxTimeout == 2
\* largest min_speech_frames of a VadConfig
MaxMinSpeech == 2
\* reset calls in one behaviour
MaxResets == 1
\* chunk_size of a resampler with differing rates (the program has 128)
ChunkSize == 2
\* longest input of one process call
MaxInputLen == 3
\* samples given to BatchResampler::process in one behaviour
MaxResampled == 5
\* streams an AudioCapturer builds in one behaviour
MaxBuilds == 2
\* stop() calls on an AudioCapturer in one behaviour
MaxStops == 1
\* callback invocations in one behaviour
MaxCallbacks == 2
\* longest slice the audio thread hands to one callback invocation
MaxCaptureLen == 2
\* tasks that execute commands side by side
NumTasks == 2
\* calls of available() in one behaviour
MaxAvailCalls == 1
\* longest write and largest read beside available()
MaxAvailLen == 2
\* total number of samples handed to write beside available()
MaxAvailOffered == 3

----------------------------------------------------------------------------
(* Program constants *)

\* WebSocketConfig::default().connect_timeout_secs
ConnectTimeoutSecs == 30

----------------------------------------------------------------------------
(* Helpers *)

Min(a, b) == IF a <= b THEN a ELSE b

\* usize::saturating_sub
SatSub(a, b) == IF a >= b THEN a - b ELSE 0

\* s without its first n elements (all of them when n >= Len(s))
DropFirst(s, n) == SubSeq(s, Min(n, Len(s)) + 1, Len(s))

IsPrefix(s, t) == Len(s) <= Len(t) /\ SubSeq(t, 1, Len(s)) = s

\* The samples are only copied by the RingBuffer, never inspected, so the
\* k-th sample ever handed to write is labelled k; 0 is the initial fill.
Slice(from, n) == [i \in 1 .. n |-> from + i]

----------------------------------------------------------------------------
(* RingBuffer: the arithmetic of write, read and available *)

\* (write_pos as i64 - read_pos as i64 + capacity as i64) as usize % capacity
\* Both cursors are below capacity, so the i64 sum is never negative and the
\* casts lose nothing.
Used(w, r) == (w - r + Capacity) % Capacity

\* `available` of write: capacity.saturating_sub(used)
WriteSpace(w, r) == SatSub(Capacity, Used(w, r))

\* Mutant of ToWrite: the reserved slot is forgotten.
ToWriteNoReserve(len, w, r) == Min(len, WriteSpace(w, r))

\* to_write = data.len().min(available.saturating_sub(1))
ToWrite(len, w, r) == Min(len, SatSub(WriteSpace(w, r), 1))

\* Mutant of WriteIdx: the slot index is off by one.
WriteIdxOffByOne(w, i) == (w + i + 1) % Capacity

\* idx = (write_pos + i) % capacity
WriteIdx(w, i) == (w + i) % Capacity

\* for i in 0..to_write { buffer[idx] = data[i] }, from iteration i on
RECURSIVE StoreLoop(_, _, _, _, _)
StoreLoop(buf, w, data, i, n) ==
    IF i >= n THEN buf
    ELSE StoreLoop([buf EXCEPT ![WriteIdx(w, i)] = data[i + 1]], w, data, i + 1, n)

\* if to_write > 0 { write_pos.store((write_pos + to_write) % capacity) }
NewWritePos(w, n) == IF n > 0 THEN (w + n) % Capacity ELSE w

\* Mutant of ToRead: the request is not capped by what is stored.
ToReadUncapped(size, w, r) == size

\* to_read = size.min(available), reached only when available > 0
ToRead(size, w, r) == Min(size, Used(w, r))

\* idx = (read_pos + i) % capacity
ReadIdx(r, i) == (r + i) % Capacity

\* for i in 0..to_read { result.push(buffer[idx]) }
ReadLoop(buf, r, n) == [i \in 1 .. n |-> buf[ReadIdx(r, i - 1)]]

\* Mutant of NewReadPos: the cursor advances by the size asked for.
NewReadPosBySize(r, size, n) == (r + size) % Capacity

\* read_pos.store((read_pos + to_read) % capacity)
NewReadPos(r, size, n) == (r + n) % Capacity

\* RingBuffer::available()
Available == Used(write_pos, read_pos)

\* The samples a reader would get from the current state, oldest first.
Live == ReadLoop(buffer, read_pos, Used(write_pos, read_pos))

----------------------------------------------------------------------------
(* RingBuffer: one call at a time *)

InitRing ==
    /\ buffer = [i \in 0 .. Capacity - 1 |-> 0]
    /\ write_pos = 0
    /\ read_pos = 0

NoCall == [op |-> "none", len |-> 0, ret |-> 0, some |-> FALSE,
           data |-> <<>>, pre |-> <<>>, w0 |-> 0, r0 |-> 0]

InitHist ==
    /\ offered = 0
    /\ accepted = <<>>
    /\ returned = <<>>
    /\ stored = <<>>
    /\ cleared = FALSE
    /\ last = NoCall

\* The locals of a thread that is not inside a call.
WriterIdle == [pc |-> "idle", data |-> <<>>, w |-> 0, r |-> 0, n |-> 0, i |-> 0]
ReaderIdle == [pc |-> "idle", size |-> 0, w |-> 0, r |-> 0, n |-> 0, i |-> 0,
               some |-> FALSE, result |-> <<>>]

InitConc ==
    /\ lock = "none"
    /\ wt = WriterIdle
    /\ rt = ReaderIdle

\* RingBuffer::write(data), data being the next len samples of the source
Write(len) ==
    LET data == Slice(offered, len)
        n    == ToWrite(len, write_pos, read_pos)
    IN  /\ offered + len <= MaxOffered
        /\ buffer' = StoreLoop(buffer, write_pos, data, 0, n)
        /\ write_pos' = NewWritePos(write_pos, n)
        /\ UNCHANGED read_pos
        /\ offered' = offered + len
        /\ accepted' = accepted \o SubSeq(data, 1, n)
        /\ stored' = stored \o SubSeq(data, 1, n)
        /\ last' = [op |-> "write", len |-> len, ret |-> n, some |-> TRUE,
                    data |-> data, pre |-> stored,
                    w0 |-> write_pos, r0 |-> read_pos]
        /\ UNCHANGED <<returned, cleared, lock, wt, rt, nonRingVars>>

\* RingBuffer::read(size)
Read(size) ==
    LET avail  == Used(write_pos, read_pos)
        n      == ToRead(size, write_pos, read_pos)
        result == ReadLoop(buffer, read_pos, n)
    IN  IF avail = 0
        THEN /\ last' = [op |-> "read", len |-> size, ret |-> 0, some |-> FALSE,
                         data |-> <<>>, pre |-> stored,
                         w0 |-> write_pos, r0 |-> read_pos]
             /\ UNCHANGED <<buffer, write_pos, read_pos, offered, accepted,
                            returned, stored, cleared, lock, wt, rt, nonRingVars>>
        ELSE /\ read_pos' = NewReadPos(read_pos, size, n)
             /\ returned' = returned \o result
             /\ stored' = DropFirst(stored, Len(result))
             /\ last' = [op |-> "read", len |-> size, ret |-> n, some |-> TRUE,
                         data |-> result, pre |-> stored,
                         w0 |-> write_pos, r0 |-> read_pos]
             /\ UNCHANGED <<buffer, write_pos, offered, accepted, cleared,
                            lock, wt, rt, nonRingVars>>

\* RingBuffer::clear()
Clear ==
    /\ write_pos' = 0
    /\ read_pos' = 0
    /\ buffer' = [i \in 0 .. Capacity - 1 |-> 0]
    /\ cleared' = TRUE
    /\ stored' = <<>>
    /\ last' = [op |-> "clear", len |-> 0, ret |-> 0, some |-> FALSE,
                data |-> <<>>, pre |-> stored,
                w0 |-> write_pos, r0 |-> read_pos]
    /\ UNCHANGED <<offered, accepted, returned, lock, wt, rt, nonRingVars>>

Next ==
    \/ \E len \in 0 .. MaxWriteLen : Write(len)
    \/ \E size \in 0 .. MaxReadSize : Read(size)
    \/ Clear

----------------------------------------------------------------------------
(* RingBuffer: one writer thread and one reader thread, step by step.      *)
(* A step is a lock acquisition, an atomic load or store of a cursor, or   *)
(* the copy of one slot. The cursors are SeqCst atomics, so the steps of   *)
(* the two threads are totally ordered.                                    *)

\* self.buffer.lock() succeeds when no thread holds the MutexGuard
LockFree == lock = "none"

\* the writer thread calls write(data)
WCall(len) ==
    /\ wt.pc = "idle"
    /\ offered + len <= MaxOffered
    /\ wt' = [WriterIdle EXCEPT !.pc = "lock", !.data = Slice(offered, len)]
    /\ offered' = offered + len
    /\ UNCHANGED <<buffer, write_pos, read_pos, accepted, returned, stored,
                   cleared, last, lock, rt, nonRingVars>>

\* let mut buffer = self.buffer.lock().unwrap();
WLock ==
    /\ wt.pc = "lock"
    /\ LockFree
    /\ lock' = "writer"
    /\ wt' = [wt EXCEPT !.pc = "load_w"]
    /\ UNCHANGED <<buffer, write_pos, read_pos, offered, accepted, returned,
                   stored, cleared, last, rt, nonRingVars>>

\* let write_pos = self.write_pos.load(SeqCst);
WLoadW ==
    /\ wt.pc = "load_w"
    /\ wt' = [wt EXCEPT !.pc = "load_r", !.w = write_pos]
    /\ UNCHANGED <<buffer, write_pos, read_pos, offered, accepted, returned,
                   stored, cleared, last, lock, rt, nonRingVars>>

\* let read_pos = self.read_pos.load(SeqCst); let to_write = ...;
WLoadR ==
    /\ wt.pc = "load_r"
    /\ wt' = [wt EXCEPT !.pc = "store", !.r = read_pos, !.i = 0,
                        !.n = ToWrite(Len(wt.data), wt.w, read_pos)]
    /\ UNCHANGED <<buffer, write_pos, read_pos, offered, accepted, returned,
                   stored, cleared, last, lock, rt, nonRingVars>>

\* one iteration of the loop: buffer[idx] = data[i];
WStore ==
    /\ wt.pc = "store"
    /\ wt.i < wt.n
    /\ buffer' = [buffer EXCEPT ![WriteIdx(wt.w, wt.i)] = wt.data[wt.i + 1]]
    /\ wt' = [wt EXCEPT !.i = wt.i + 1]
    /\ UNCHANGED <<write_pos, read_pos, offered, accepted, returned, stored,
                   cleared, last, lock, rt, nonRingVars>>

\* if to_write > 0 { self.write_pos.store(...) }: the samples are committed
WPublish ==
    /\ wt.pc = "store"
    /\ wt.i >= wt.n
    /\ write_pos' = NewWritePos(wt.w, wt.n)
    /\ accepted' = accepted \o SubSeq(wt.data, 1, wt.n)
    /\ stored' = stored \o SubSeq(wt.data, 1, wt.n)
    /\ wt' = [wt EXCEPT !.pc = "unlock"]
    /\ UNCHANGED <<buffer, read_pos, offered, returned, cleared, last, lock, rt, nonRingVars>>

\* write returns to_write; the MutexGuard is dropped
WUnlock ==
    /\ wt.pc = "unlock"
    /\ lock' = IF lock = "writer" THEN "none" ELSE lock
    /\ wt' = WriterIdle
    /\ UNCHANGED <<buffer, write_pos, read_pos, offered, accepted, returned,
                   stored, cleared, last, rt, nonRingVars>>

\* the reader thread calls read(size)
RCall(size) ==
    /\ rt.pc = "idle"
    /\ rt' = [ReaderIdle EXCEPT !.pc = "lock", !.size = size]
    /\ UNCHANGED <<buffer, write_pos, read_pos, offered, accepted, returned,
                   stored, cleared, last, lock, wt, nonRingVars>>

\* let mut buffer = self.buffer.lock().unwrap();
RLock ==
    /\ rt.pc = "lock"
    /\ LockFree
    /\ lock' = "reader"
    /\ rt' = [rt EXCEPT !.pc = "load_w"]
    /\ UNCHANGED <<buffer, write_pos, read_pos, offered, accepted, returned,
                   stored, cleared, last, wt, nonRingVars>>

\* let write_pos = self.write_pos.load(SeqCst);
RLoadW ==
    /\ rt.pc = "load_w"
    /\ rt' = [rt EXCEPT !.pc = "load_r", !.w = write_pos]
    /\ UNCHANGED <<buffer, write_pos, read_pos, offered, accepted, returned,
                   stored, cleared, last, lock, wt, nonRingVars>>

\* let read_pos = self.read_pos.load(SeqCst);
\* if available == 0 { return None; }  let to_read = size.min(available);
RLoadR ==
    /\ rt.pc = "load_r"
    /\ IF Used(rt.w, read_pos) = 0
       THEN rt' = [rt EXCEPT !.pc = "unlock", !.r = read_pos]
       ELSE rt' = [rt EXCEPT !.pc = "copy", !.r = read_pos, !.i = 0,
                             !.some = TRUE,
                             !.n = ToRead(rt.size, rt.w, read_pos)]
    /\ UNCHANGED <<buffer, write_pos, read_pos, offered, accepted, returned,
                   stored, cleared, last, lock, wt, nonRingVars>>

\* one iteration of the loop: result.push(buffer[idx]);
RCopy ==
    /\ rt.pc = "copy"
    /\ rt.i < rt.n
    /\ rt' = [rt EXCEPT !.i = rt.i + 1,
                        !.result = Append(rt.result, buffer[ReadIdx(rt.r, rt.i)])]
    /\ UNCHANGED <<buffer, write_pos, read_pos, offered, accepted, returned,
                   stored, cleared, last, lock, wt, nonRingVars>>

\* self.read_pos.store((read_pos + to_read) % capacity): the slots are freed
RPublish ==
    /\ rt.pc = "copy"
    /\ rt.i >= rt.n
    /\ read_pos' = NewReadPos(rt.r, rt.size, rt.n)
    /\ stored' = DropFirst(stored, rt.n)
    /\ rt' = [rt EXCEPT !.pc = "unlock"]
    /\ UNCHANGED <<buffer, write_pos, offered, accepted, returned, cleared,
                   last, lock, wt, nonRingVars>>

\* read returns Some(result) or None; the MutexGuard is dropped
RUnlock ==
    /\ rt.pc = "unlock"
    /\ lock' = IF lock = "reader" THEN "none" ELSE lock
    /\ returned' = returned \o rt.result
    /\ rt' = ReaderIdle
    /\ UNCHANGED <<buffer, write_pos, read_pos, offered, accepted, stored,
                   cleared, last, wt, nonRingVars>>

NextConc ==
    \/ \E len \in 0 .. MaxWriteLen : WCall(len)
    \/ WLock
    \/ WLoadW
    \/ WLoadR
    \/ WStore
    \/ WPublish
    \/ WUnlock
    \/ \E size \in 0 .. MaxReadSize : RCall(size)
    \/ RLock
    \/ RLoadW
    \/ RLoadR
    \/ RCopy
    \/ RPublish
    \/ RUnlock

----------------------------------------------------------------------------
(* WebSocketClient                                                         *)
(*                                                                         *)
(* Every method takes &mut self and no caller drops a pending future, so   *)
(* the calls on one client run one at a time and to completion. connect    *)
(* and receive suspend on the network and are modelled in two steps; the   *)
(* network's answer is the environment's choice. The `running` flag is     *)
(* only ever stored false and `last_activity` is never read, so neither is *)
(* a variable here.                                                        *)

\* enum ConnectionState; Reconnecting { attempt, max_attempts } is declared
\* and never constructed.
Disconnected == [kind |-> "Disconnected", reason |-> ""]
Connecting   == [kind |-> "Connecting", reason |-> ""]
Connected    == [kind |-> "Connected", reason |-> ""]
Failed(msg)  == [kind |-> "Failed", reason |-> msg]

\* WebSocketClient::is_connected(): matches!(*state, ConnectionState::Connected)
IsConnected(st) == st.kind = "Connected"

\* The result of a call that has not returned yet.
Pending == "pending"

NoWsCall == [op |-> "none", res |-> "none", how |-> "none", msg |-> "none",
             close |-> "none", state0 |-> Disconnected, stream0 |-> 0,
             wire0 |-> <<>>, attempts0 |-> 0]

\* The record of a call entered in the current state.
WsCall(op) == [NoWsCall EXCEPT !.op = op, !.res = Pending,
                               !.state0 = ws_state, !.stream0 = ws_stream,
                               !.wire0 = wire, !.attempts0 = attempts]

InitWs ==
    /\ ws_stream = 0
    /\ ws_state = Disconnected
    /\ api_key = "none"
    /\ ws_pc = "idle"
    /\ elapsed = 0
    /\ attempts = 0
    /\ wire = <<>>
    /\ closes = <<>>
    /\ wslast = NoWsCall

\* WebSocketClient::set_api_key(api_key). A key with a character that is not
\* legal in a URI makes the request builder of connect fail. Setting the key
\* already set changes nothing and is left out.
SetApiKey(key) ==
    /\ ws_pc = "idle"
    /\ key # api_key
    /\ api_key' = key
    /\ wslast' = [WsCall("set_api_key") EXCEPT !.res = "Ok"]
    /\ UNCHANGED <<closes, ws_stream, ws_state, ws_pc, elapsed, attempts, wire, nonWsVars>>

\* tokio::time::timeout(Duration::from_secs(connect_timeout_secs), ..) is due
TimerExpired(t) == t >= ConnectTimeoutSecs

\* Mutant of StateOnTimeout: the timeout branch starts a reconnection.
StateOnTimeoutReconnecting == [kind |-> "Reconnecting", reason |-> "1/5"]

\* Mutant of StateOnTimeout: the timeout branch forgets set_state.
StateOnTimeoutKept == ws_state

\* Err(_) => set_state(ConnectionState::Failed("Connection timed out"))
StateOnTimeout == Failed("Connection timed out")

\* connect(), up to its first suspension: set_state(Connecting), the api key
\* (`?` returns AuthenticationFailed when none is set), the request (`?`
\* returns ConnectionFailed when the URI does not parse), then
\* timeout(connect_async(request)).await
ConnectCall ==
    /\ ws_pc = "idle"
    /\ attempts < MaxConnects
    /\ attempts' = attempts + 1
    /\ ws_state' = Connecting
    /\ elapsed' = 0
    /\ CASE api_key = "none" ->
              /\ ws_pc' = "idle"
              /\ wslast' = [WsCall("connect") EXCEPT
                                !.res = "AuthenticationFailed", !.how = "no_api_key"]
         [] api_key = "malformed" ->
              /\ ws_pc' = "idle"
              /\ wslast' = [WsCall("connect") EXCEPT
                                !.res = "ConnectionFailed", !.how = "bad_request"]
         [] OTHER ->
              /\ ws_pc' = "connecting"
              /\ wslast' = WsCall("connect")
    /\ UNCHANGED <<closes, ws_stream, api_key, wire, nonWsVars>>

\* one second passes while connect_async is pending
ConnectTick ==
    /\ ws_pc = "connecting"
    /\ ~TimerExpired(elapsed)
    /\ elapsed' = elapsed + 1
    /\ UNCHANGED <<closes, ws_stream, ws_state, api_key, ws_pc, attempts, wire, wslast,
                   nonWsVars>>

\* Ok(Ok((stream, response))) with any status but 401:
\* self.stream = Some(stream); set_state(Connected); Ok(())
ConnectEstablished ==
    /\ ws_pc = "connecting"
    /\ ~TimerExpired(elapsed)
    /\ ws_stream' = attempts
    /\ ws_state' = Connected
    /\ ws_pc' = "idle"
    /\ wslast' = [wslast EXCEPT !.res = "Ok", !.how = "established"]
    /\ elapsed' = 0
    /\ UNCHANGED <<closes, api_key, attempts, wire, nonWsVars>>

\* Ok(Ok((stream, response))) with response.status() == UNAUTHORIZED:
\* return Err(AuthenticationFailed); the new stream is dropped. (The branch
\* is taken only if connect_async hands back a 401 response as a success.)
ConnectUnauthorized ==
    /\ ws_pc = "connecting"
    /\ ~TimerExpired(elapsed)
    /\ ws_pc' = "idle"
    /\ wslast' = [wslast EXCEPT !.res = "AuthenticationFailed",
                                !.how = "unauthorized"]
    /\ elapsed' = 0
    /\ UNCHANGED <<closes, ws_stream, ws_state, api_key, attempts, wire, nonWsVars>>

\* Ok(Err(e)): set_state(Failed(e.to_string())); Err(ConnectionFailed(..))
ConnectRejected ==
    /\ ws_pc = "connecting"
    /\ ~TimerExpired(elapsed)
    /\ ws_state' = Failed("handshake error")
    /\ ws_pc' = "idle"
    /\ wslast' = [wslast EXCEPT !.res = "ConnectionFailed", !.how = "rejected"]
    /\ elapsed' = 0
    /\ UNCHANGED <<closes, ws_stream, api_key, attempts, wire, nonWsVars>>

\* Err(_): the timer fired first; set_state(Failed("Connection timed out"));
\* Err(ConnectionFailed(..)). The pending connect_async is dropped.
ConnectTimeout ==
    /\ ws_pc = "connecting"
    /\ TimerExpired(elapsed)
    /\ ws_state' = StateOnTimeout
    /\ ws_pc' = "idle"
    /\ wslast' = [wslast EXCEPT !.res = "ConnectionFailed", !.how = "timeout"]
    /\ elapsed' = 0
    /\ UNCHANGED <<closes, ws_stream, api_key, attempts, wire, nonWsVars>>

\* self.stream.take() leaves None behind
StreamAfterTake(s) == 0

\* Mutant of StateAfterDisconnect: set_state only when a stream was closed.
StateAfterDisconnectIfStream(st, s) == IF s # 0 THEN Disconnected ELSE st

\* self.set_state(ConnectionState::Disconnected), outside the `if let`
StateAfterDisconnect(st, s) == Disconnected

\* disconnect(), once stream.close(None).await has completed: if a stream is
\* held it is taken and a close frame is sent, the result of which is
\* ignored (closeOk: whether it went out)
Disconnect(closeOk) ==
    /\ ws_pc = "idle"
    /\ ws_stream' = StreamAfterTake(ws_stream)
    /\ ws_state' = StateAfterDisconnect(ws_state, ws_stream)
    /\ wire' = IF ws_stream # 0 /\ closeOk
               THEN Append(wire, <<ws_stream, "close">>) ELSE wire
    /\ wslast' = [WsCall("disconnect") EXCEPT
                      !.res = "Ok",
                      !.close = IF ws_stream = 0 THEN "none"
                                ELSE IF closeOk THEN "sent" ELSE "failed"]
    /\ UNCHANGED <<closes, api_key, ws_pc, elapsed, attempts, nonWsVars>>

\* The number of frames sent by send_* so far.
Sends == Cardinality({i \in 1 .. Len(wire) : wire[i][2] # "close"})

\* send_text, else branch: Err(NetworkError::ConnectionLost)
NoStreamError == "ConnectionLost"

\* Mutant of StateAfterSend: a send without a stream marks the client failed.
StateAfterSendMarksLost(st, s) == IF s = 0 THEN Failed("connection lost") ELSE st

\* send_text and send_binary never call set_state
StateAfterSend(st, s) == st

\* send_text(text) and send_binary(data); send_audio and send_init_config
\* build a JSON payload and call send_text. kind is the frame put on the
\* wire, sendOk whether stream.send succeeded, budget the number of frames
\* the model lets the caller send.
SendWithin(budget, op, kind, sendOk) ==
    /\ ws_pc = "idle"
    /\ ws_state' = StateAfterSend(ws_state, ws_stream)
    /\ IF ws_stream # 0
       THEN IF sendOk
            THEN /\ Sends < budget
                 /\ wire' = Append(wire, <<ws_stream, kind>>)
                 /\ wslast' = [WsCall(op) EXCEPT !.res = "Ok"]
            ELSE /\ wire' = wire
                 /\ wslast' = [WsCall(op) EXCEPT !.res = "SendFailed"]
       ELSE /\ wire' = wire
            /\ wslast' = [WsCall(op) EXCEPT !.res = NoStreamError]
    /\ UNCHANGED <<closes, ws_stream, api_key, ws_pc, elapsed, attempts, nonWsVars>>

\* A send method called on the WebSocketClient directly.
Send(op, kind, sendOk) == SendWithin(MaxSends, op, kind, sendOk)

\* The send methods and the frame each puts on the wire.
SendOps == { <<"send_text", "text">>, <<"send_binary", "binary">>,
             <<"send_audio", "input_audio_chunk">>,
             <<"send_init_config", "configure">> }

SendOpNames == { so[1] : so \in SendOps }

\* receive(), up to its suspension: without a stream it returns None at
\* once, with one it waits in stream.next().await
ReceiveCall ==
    /\ ws_pc = "idle"
    /\ IF ws_stream = 0
       THEN /\ ws_pc' = "idle"
            /\ wslast' = [WsCall("receive") EXCEPT !.res = "None",
                                                   !.how = "no_stream"]
       ELSE /\ ws_pc' = "receiving"
            /\ wslast' = WsCall("receive")
    /\ UNCHANGED <<closes, ws_stream, ws_state, api_key, elapsed, attempts, wire,
                   nonWsVars>>

\* What stream.next() can yield: a frame, an error, or the end of the stream.
Arrivals == {"Text", "Binary", "Ping", "Pong", "Close", "Frame", "Error", "End"}

\* The frames receive hands to its caller as Some(WsMessage::..).
Delivered == {"Text", "Binary", "Ping", "Pong", "Close"}

\* Mutant of StateAfterReceive: an inbound frame marks the client connected.
StateAfterReceiveMarksConnected(st, arrival) ==
    IF arrival \in Delivered \ {"Close"} THEN Connected ELSE st

\* receive never calls set_state
StateAfterReceive(st, arrival) == st

\* Mutant of StreamAfterReceive: the stream is kept after a close frame.
StreamAfterReceiveKept(s, arrival) == s

\* Message::Close(_) => { self.stream = None; .. }
StreamAfterReceive(s, arrival) == IF arrival = "Close" THEN 0 ELSE s

\* stream.next() yields: the match of receive
ReceiveNext(arrival) ==
    /\ ws_pc = "receiving"
    /\ ws_pc' = "idle"
    /\ ws_stream' = StreamAfterReceive(ws_stream, arrival)
    /\ ws_state' = StateAfterReceive(ws_state, arrival)
    /\ wslast' = [wslast EXCEPT
                      !.res = IF arrival \in Delivered THEN arrival ELSE "None",
                      !.how = "arrival",
                      !.msg = arrival]
    /\ closes' = IF arrival = "Close" THEN Append(closes, ws_stream) ELSE closes
    /\ UNCHANGED <<api_key, elapsed, attempts, wire, nonWsVars>>

NextWs ==
    \/ \E key \in {"valid", "malformed"} : SetApiKey(key)
    \/ ConnectCall
    \/ ConnectTick
    \/ ConnectEstablished
    \/ ConnectUnauthorized
    \/ ConnectRejected
    \/ ConnectTimeout
    \/ \E closeOk \in BOOLEAN : Disconnect(closeOk)
    \/ \E so \in SendOps, sendOk \in BOOLEAN : Send(so[1], so[2], sendOk)
    \/ ReceiveCall
    \/ \E arrival \in Arrivals : ReceiveNext(arrival)

----------------------------------------------------------------------------
(* ScribeClient (src-tauri/src/modules/network/scribe_client.rs)           *)
(*                                                                         *)
(* The session owns its WebSocketClient (ws_client is private), so in      *)
(* SpecScribe every WebSocketClient step is taken inside a ScribeClient    *)
(* method. A method that calls into the WebSocketClient is entered by a    *)
(* step of its own, which leaves its name in wslast; the WebSocketClient   *)
(* steps follow, and a last step runs the rest of the method.              *)

\* A JSON field that is missing or is not a string.
NoField == "none"

\* An inbound text payload: whether serde_json parses it, its message_type
\* and the string field the matching arm reads (session_id for
\* session_started, text for the transcripts, code for error).
Payload(json, mtype, field) == [json |-> json, mtype |-> mtype, field |-> field]

\* What stands for the payload of a frame that is not a text frame.
NoPayload == Payload(FALSE, NoField, "not a text frame")

\* The payloads the server may send.
TextPayloads ==
    { Payload(FALSE, NoField, NoField),
      Payload(TRUE, NoField, NoField),
      Payload(TRUE, "word_details", "a"),
      Payload(TRUE, "session_started", "s1"),
      Payload(TRUE, "session_started", "s2"),
      Payload(TRUE, "partial_transcript", "a"),
      Payload(TRUE, "partial_transcript", "b"),
      Payload(TRUE, "committed_transcript", "a") }

\* The message types parse_text_message knows.
KnownTypes == {"session_started", "partial_transcript", "committed_transcript",
               "error"}

\* A WsMessage as receive() hands it to parse_message.
WsMsg(kind, payload) == [kind |-> kind, payload |-> payload]

\* A ScribeEvent: its variant and the text it carries (session id, transcript
\* text or error code).
Event(type, text) == [type |-> type, text |-> text]

NoEvent == Event("none", "")

\* response.get(name).and_then(|v| v.as_str()).unwrap_or(default)
StrOr(field, default) == IF field = NoField THEN default ELSE field

\* Mutant of ParseTextMessage: a payload of no known type gives no event.
ParseTextMessageSkipsUnknown(p) ==
    IF p.json /\ p.mtype = "session_started"
    THEN Event("SessionStarted", StrOr(p.field, "unknown"))
    ELSE IF p.json /\ p.mtype = "partial_transcript"
    THEN Event("PartialTranscript", StrOr(p.field, ""))
    ELSE IF p.json /\ p.mtype = "committed_transcript"
    THEN Event("CommittedTranscript", StrOr(p.field, ""))
    ELSE IF p.json /\ p.mtype = "error"
    THEN Event("Error", StrOr(p.field, "unknown"))
    ELSE NoEvent

\* parse_text_message(text): the event it returns
ParseTextMessage(p) ==
    IF p.json
    THEN LET message_type == StrOr(p.mtype, "unknown") IN
         CASE message_type = "session_started" ->
                  Event("SessionStarted", StrOr(p.field, "unknown"))
           [] message_type = "partial_transcript" ->
                  Event("PartialTranscript", StrOr(p.field, ""))
           [] message_type = "committed_transcript" ->
                  Event("CommittedTranscript", StrOr(p.field, ""))
           [] message_type = "error" ->
                  Event("Error", StrOr(p.field, "unknown"))
           [] OTHER ->
                  Event("Error", "unknown_type")
    ELSE Event("Error", "parse_error")

\* parse_message(msg): text is decoded, every other frame is Disconnected
ParseMessage(m) ==
    IF m.kind = "Text" THEN ParseTextMessage(m.payload)
    ELSE Event("Disconnected", "")

\* Mutant of SessionIdAfter: a session id, once set, is kept.
SessionIdAfterKeepsFirst(sid, m) ==
    IF sid = NoField /\ m.kind = "Text" /\ m.payload.json
       /\ m.payload.mtype = "session_started"
    THEN StrOr(m.payload.field, "unknown") ELSE sid

\* "session_started" arm: *sid = Some(session_id)
SessionIdAfter(sid, m) ==
    IF m.kind = "Text" /\ m.payload.json /\ m.payload.mtype = "session_started"
    THEN StrOr(m.payload.field, "unknown") ELSE sid

\* Mutant of PartialAfter: a partial transcript is appended to the buffer.
PartialAfterAppends(buf, m) ==
    IF m.kind = "Text" /\ m.payload.json
    THEN CASE m.payload.mtype = "partial_transcript" ->
                  buf \o <<StrOr(m.payload.field, "")>>
           [] m.payload.mtype = "committed_transcript" -> <<>>
           [] OTHER -> buf
    ELSE buf

\* "partial_transcript" arm: *buffer = text.clone();
\* "committed_transcript" arm: buffer.clear(). The buffer is modelled as the
\* sequence of the texts it is made of, the empty String as <<>>.
PartialAfter(buf, m) ==
    IF m.kind = "Text" /\ m.payload.json
    THEN CASE m.payload.mtype = "partial_transcript" ->
                  IF StrOr(m.payload.field, "") = "" THEN <<>>
                  ELSE <<m.payload.field>>
           [] m.payload.mtype = "committed_transcript" -> <<>>
           [] OTHER -> buf
    ELSE buf

\* "committed_transcript" arm: *last = Some(text.clone())
LastTranscriptAfter(lt, m) ==
    IF m.kind = "Text" /\ m.payload.json
       /\ m.payload.mtype = "committed_transcript"
    THEN StrOr(m.payload.field, "") ELSE lt

\* An event with the number of the inbound message it was decoded from.
Tag(ev, n) == [n |-> n, type |-> ev.type, text |-> ev.text]

\* The events handed out so far and those on their way: obtained by the
\* caller, waiting in the channel, held by run() for event_tx.send.
Produced == obtained \o event_q \o held

NoMsg == WsMsg("none", NoPayload)

NoScCall == [op |-> "none", res |-> "none", msg |-> NoMsg, event |-> NoEvent,
             state0 |-> Disconnected, stream0 |-> 0, sid0 |-> NoField,
             partial0 |-> <<>>, last0 |-> NoField, n0 |-> 0]

\* The record of a ScribeClient method entered in the current state.
ScCall(op) == [NoScCall EXCEPT !.op = op, !.res = Pending,
                               !.state0 = ws_state, !.stream0 = ws_stream,
                               !.sid0 = session_id,
                               !.partial0 = partial_buffer,
                               !.last0 = last_transcript,
                               !.n0 = Len(Produced)]

\* ScribeClient::new(ScribeConfig::default())
InitScribe ==
    /\ sc_pc = "idle"
    /\ cfg_key = "none"
    /\ session_id = NoField
    /\ last_transcript = NoField
    /\ partial_buffer = <<>>
    /\ sc_running = FALSE
    /\ event_q = <<>>
    /\ held = <<>>
    /\ inbound = <<>>
    /\ disc_at = 0
    /\ obtained = <<>>
    /\ sclast = NoScCall

scFields == <<cfg_key, session_id, last_transcript, partial_buffer>>
scEvents == <<event_q, held, inbound, disc_at, obtained>>
wsFields == <<ws_stream, ws_state, ws_pc, elapsed, attempts, wire, closes>>

\* set_api_key(api_key): the key goes into the config and into the
\* WebSocketClient
ScSetApiKey(key) ==
    /\ sc_pc = "idle"
    /\ key # cfg_key
    /\ cfg_key' = key
    /\ api_key' = key
    /\ wslast' = [WsCall("set_api_key") EXCEPT !.res = "Ok"]
    /\ sclast' = [ScCall("set_api_key") EXCEPT !.res = "Ok"]
    /\ UNCHANGED <<sc_pc, session_id, last_transcript, partial_buffer,
                   sc_running, scEvents, wsFields, audioVars>>

\* connect(), up to ws_client.connect(): the key of the config, if any, is
\* set on the WebSocketClient again
ScConnect ==
    /\ sc_pc = "idle"
    /\ attempts < MaxConnects
    /\ sc_pc' = "connect"
    /\ api_key' = IF cfg_key # "none" THEN cfg_key ELSE api_key
    /\ wslast' = WsCall("session")
    /\ sclast' = ScCall("connect")
    /\ UNCHANGED <<scFields, sc_running, scEvents, wsFields, audioVars>>

\* self.ws_client.connect().await
ScConnectWs ==
    /\ sc_pc = "connect"
    /\ wslast.op = "session"
    /\ ConnectCall

\* self.ws_client.send_init_config(model_id, language_code).await, reached
\* when ws_client.connect() returned Ok
ScConnectConfig(sendOk) ==
    /\ sc_pc = "connect"
    /\ wslast.op = "connect"
    /\ wslast.res = "Ok"
    /\ SendWithin(MaxSessionSends, "send_init_config", "configure", sendOk)

\* connect() returns: the error of ws_client.connect() (`?`), or the result
\* of send_init_config
ScConnectReturn ==
    /\ sc_pc = "connect"
    /\ \/ wslast.op = "connect" /\ wslast.res \notin {Pending, "Ok"}
       \/ wslast.op = "send_init_config"
    /\ sc_pc' = "idle"
    /\ sclast' = [sclast EXCEPT !.res = wslast.res]
    /\ UNCHANGED <<scFields, sc_running, scEvents, wsVars, audioVars>>

\* send_audio(audio_data): self.ws_client.send_audio(audio_data).await
ScSendAudio(sendOk) ==
    /\ sc_pc = "idle"
    /\ SendWithin(MaxSessionSends, "send_audio", "input_audio_chunk", sendOk)

\* disconnect(), up to ws_client.disconnect(): running.store(false)
ScDisconnect ==
    /\ sc_pc = "idle"
    /\ sc_pc' = "disconnect"
    /\ sc_running' = FALSE
    /\ wslast' = WsCall("session")
    /\ sclast' = ScCall("disconnect")
    /\ UNCHANGED <<scFields, scEvents, api_key, wsFields, audioVars>>

\* stop(), up to ws_client.disconnect(): running.store(false)
ScStop ==
    /\ sc_pc = "idle"
    /\ sc_pc' = "stop"
    /\ sc_running' = FALSE
    /\ wslast' = WsCall("session")
    /\ sclast' = ScCall("stop")
    /\ UNCHANGED <<scFields, scEvents, api_key, wsFields, audioVars>>

\* self.ws_client.disconnect().await, in disconnect() and in stop()
ScCloseWs(closeOk) ==
    /\ sc_pc \in {"disconnect", "stop"}
    /\ wslast.op = "session"
    /\ Disconnect(closeOk)

\* Mutant of PartialAfterDisconnect: disconnect() leaves the buffer alone.
PartialAfterDisconnectKept(buf) == buf

\* disconnect(): buffer.clear()
PartialAfterDisconnect(buf) == <<>>

\* disconnect(), after ws_client.disconnect(): the partial buffer is cleared
ScDisconnectReturn ==
    /\ sc_pc = "disconnect"
    /\ wslast.op = "disconnect"
    /\ sc_pc' = "idle"
    /\ partial_buffer' = PartialAfterDisconnect(partial_buffer)
    /\ disc_at' = Len(inbound)
    /\ sclast' = [sclast EXCEPT !.res = "Ok"]
    /\ UNCHANGED <<cfg_key, session_id, last_transcript, sc_running, event_q,
                   held, inbound, obtained, wsVars, audioVars>>

\* stop(), after ws_client.disconnect(): Ok(())
ScStopReturn ==
    /\ sc_pc = "stop"
    /\ wslast.op = "disconnect"
    /\ sc_pc' = "idle"
    /\ sclast' = [sclast EXCEPT !.res = "Ok"]
    /\ UNCHANGED <<scFields, sc_running, scEvents, wsVars, audioVars>>

\* receive_event(), up to ws_client.receive()
ScReceiveEvent ==
    /\ sc_pc = "idle"
    /\ sc_pc' = "receive_event"
    /\ wslast' = WsCall("session")
    /\ sclast' = ScCall("receive_event")
    /\ UNCHANGED <<scFields, sc_running, scEvents, api_key, wsFields, audioVars>>

\* self.ws_client.receive().await, in receive_event() called directly or by
\* run()
ScReceiveWs ==
    /\ sc_pc \in {"receive_event", "run_receive"}
    /\ wslast.op = "session"
    /\ ReceiveCall

\* stream.next() yields while the session waits in ws_client.receive()
ScReceiveNext(arrival) ==
    /\ arrival \in Delivered => Len(inbound) < MaxInbound
    /\ ReceiveNext(arrival)

\* The message ws_client.receive() returned, with the payload of a text frame.
Received(p) == WsMsg(wslast.res, IF wslast.res = "Text" THEN p ELSE NoPayload)

\* The payloads a returned frame may carry.
PayloadsOf(res) == IF res = "Text" THEN TextPayloads ELSE {NoPayload}

\* The payloads of the model.
Payloads == TextPayloads \cup {NoPayload}

\* The part of receive_event() after ws_client.receive(): Some(msg) is
\* parsed (parse_message updates the session fields), None is passed on.
Decode(m) ==
    /\ inbound' = Append(inbound, m)
    /\ session_id' = SessionIdAfter(session_id, m)
    /\ partial_buffer' = PartialAfter(partial_buffer, m)
    /\ last_transcript' = LastTranscriptAfter(last_transcript, m)

\* receive_event() returns to its caller
ScReceiveReturn(p) ==
    /\ sc_pc = "receive_event"
    /\ wslast.op = "receive"
    /\ wslast.res # Pending
    /\ p \in PayloadsOf(wslast.res)
    /\ sc_pc' = "idle"
    /\ IF wslast.res = "None"
       THEN /\ sclast' = [sclast EXCEPT !.res = "None"]
            /\ UNCHANGED <<inbound, session_id, partial_buffer,
                           last_transcript, obtained>>
       ELSE /\ Decode(Received(p))
            /\ obtained' = Append(obtained, Tag(ParseMessage(Received(p)),
                                                Len(inbound) + 1))
            /\ sclast' = [sclast EXCEPT !.res = "Some", !.msg = Received(p),
                                        !.event = ParseMessage(Received(p))]
    /\ UNCHANGED <<cfg_key, sc_running, event_q, held, disc_at, wsVars, audioVars>>

\* run(): self.running.store(true)
ScRun ==
    /\ sc_pc = "idle"
    /\ sc_pc' = "run_top"
    /\ sc_running' = TRUE
    /\ sclast' = ScCall("run")
    /\ UNCHANGED <<scFields, scEvents, wsVars, audioVars>>

\* run(): while self.running.load() { self.receive_event() .. }
RunLoop ==
    /\ sc_pc = "run_top"
    /\ IF sc_running
       THEN /\ sc_pc' = "run_receive"
            /\ wslast' = WsCall("session")
            /\ sclast' = ScCall("run")
       ELSE /\ sc_pc' = "idle"
            /\ sclast' = [sclast EXCEPT !.res = "Ok"]
            /\ wslast' = wslast
    /\ UNCHANGED <<scFields, sc_running, scEvents, api_key, wsFields, audioVars>>

\* run(): if let Some(event) = self.receive_event().await
RunReceived(p) ==
    /\ sc_pc = "run_receive"
    /\ wslast.op = "receive"
    /\ wslast.res # Pending
    /\ p \in PayloadsOf(wslast.res)
    /\ IF wslast.res = "None"
       THEN /\ sc_pc' = "run_sleep"
            /\ sclast' = [sclast EXCEPT !.res = "None"]
            /\ UNCHANGED <<inbound, session_id, partial_buffer,
                           last_transcript, held>>
       ELSE /\ sc_pc' = "run_send"
            /\ Decode(Received(p))
            /\ held' = <<Tag(ParseMessage(Received(p)), Len(inbound) + 1)>>
            /\ sclast' = [sclast EXCEPT !.res = "Some", !.msg = Received(p),
                                        !.event = ParseMessage(Received(p))]
    /\ UNCHANGED <<cfg_key, sc_running, event_q, disc_at, obtained, wsVars,
                   audioVars>>

\* run(): let _ = self.event_tx.send(event).await, which completes when the
\* channel has a free slot
RunSend ==
    /\ sc_pc = "run_send"
    /\ Len(event_q) < EventQueueCapacity
    /\ event_q' = Append(event_q, held[1])
    /\ held' = <<>>
    /\ sc_pc' = "run_sleep"
    /\ UNCHANGED <<scFields, sc_running, inbound, disc_at, obtained, sclast,
                   wsVars, audioVars>>

\* run(): tokio::time::sleep(10ms).await
RunSleep ==
    /\ sc_pc = "run_sleep"
    /\ sc_pc' = "run_top"
    /\ UNCHANGED <<scFields, sc_running, scEvents, sclast, wsVars, audioVars>>

\* run() is suspended: in stream.next(), in event_tx.send on a full channel,
\* or in sleep.
RunSuspended ==
    \/ sc_pc = "run_receive" /\ ws_pc = "receiving"
    \/ sc_pc = "run_send" /\ Len(event_q) >= EventQueueCapacity
    \/ sc_pc = "run_sleep"

\* The caller drops the future of run() at a suspension point (run holds
\* &mut self and nothing else clears `running`, so this is the only way a
\* try_receive can follow a run). What the future held goes with it: the
\* pending stream.next() is cancelled, an event not yet in the channel is
\* dropped.
RunDropped ==
    /\ RunSuspended
    /\ sc_pc' = "idle"
    /\ held' = <<>>
    /\ ws_pc' = "idle"
    /\ wslast' = IF ws_pc = "receiving"
                 THEN [wslast EXCEPT !.res = "None", !.how = "dropped"]
                 ELSE wslast
    /\ sclast' = [sclast EXCEPT !.op = "run", !.res = "Dropped"]
    /\ UNCHANGED <<scFields, sc_running, event_q, inbound, disc_at, obtained,
                   ws_stream, ws_state, api_key, elapsed, attempts, wire,
                   closes, audioVars>>

\* try_receive(): timeout(100ms, self.event_rx.recv()); nothing can fill the
\* channel while try_receive holds &mut self, so an empty channel times out
ScTryReceive ==
    /\ sc_pc = "idle"
    /\ IF event_q # <<>>
       THEN /\ obtained' = Append(obtained, Head(event_q))
            /\ event_q' = Tail(event_q)
            /\ sclast' = [ScCall("try_receive") EXCEPT
                              !.res = "Some",
                              !.event = Event(Head(event_q).type,
                                              Head(event_q).text)]
       ELSE /\ sclast' = [ScCall("try_receive") EXCEPT !.res = "None"]
            /\ UNCHANGED <<obtained, event_q>>
    /\ UNCHANGED <<sc_pc, scFields, sc_running, held, inbound, disc_at, wsVars,
                   audioVars>>

\* One payload, for the specifications in which what a text frame carries
\* makes no difference.
AnyPayload == {Payload(TRUE, "partial_transcript", "a")}

\* The arrivals that change the connection: the close frame and the end of
\* the stream.
ConnectionArrivals == {"Close", "End"}

\* The methods that open, use and close the connection, with the arrivals
\* that change it.
NextScribe ==
    \/ \E key \in {"valid", "malformed"} : ScSetApiKey(key)
    \/ ScConnect
    \/ ScConnectWs
    \/ ConnectTick
    \/ ConnectEstablished
    \/ ConnectUnauthorized
    \/ ConnectRejected
    \/ ConnectTimeout
    \/ \E sendOk \in BOOLEAN : ScConnectConfig(sendOk)
    \/ ScConnectReturn
    \/ \E sendOk \in BOOLEAN : ScSendAudio(sendOk)
    \/ ScDisconnect
    \/ ScStop
    \/ \E closeOk \in BOOLEAN : ScCloseWs(closeOk)
    \/ ScDisconnectReturn
    \/ ScStopReturn
    \/ ScReceiveEvent
    \/ ScReceiveWs
    \/ \E arrival \in ConnectionArrivals : ScReceiveNext(arrival)
    \/ ScReceiveReturn(NoPayload)

\* The arrivals receive_event tells apart: a text frame, another data or
\* control frame, the close frame, and an arrival that is no message.
DecodeArrivals == {"Text", "Ping", "Close", "Error"}

\* receive_event and the decoding of every payload, on connections that
\* are opened and closed without a failure.
NextScribeRx ==
    \/ ScSetApiKey("valid")
    \/ ScConnect
    \/ ScConnectWs
    \/ ConnectEstablished
    \/ ScConnectConfig(TRUE)
    \/ ScConnectReturn
    \/ ScDisconnect
    \/ ScStop
    \/ ScCloseWs(TRUE)
    \/ ScDisconnectReturn
    \/ ScStopReturn
    \/ ScReceiveEvent
    \/ ScReceiveWs
    \/ \E arrival \in DecodeArrivals : ScReceiveNext(arrival)
    \/ \E p \in Payloads : ScReceiveReturn(p)

\* The arrivals that matter to the order of the events.
RunArrivals == {"Text", "Close", "Error"}

\* run with try_receive, on connections that are opened and closed without
\* a failure. The events are told apart by the number of their message, so
\* all text frames carry the same payload.
NextScribeRun ==
    \/ ScSetApiKey("valid")
    \/ ScConnect
    \/ ScConnectWs
    \/ ConnectEstablished
    \/ ScConnectConfig(TRUE)
    \/ ScConnectReturn
    \/ ScDisconnect
    \/ ScStop
    \/ ScCloseWs(TRUE)
    \/ ScDisconnectReturn
    \/ ScStopReturn
    \/ ScReceiveWs
    \/ \E arrival \in RunArrivals : ScReceiveNext(arrival)
    \/ ScRun
    \/ RunLoop
    \/ \E p \in AnyPayload \cup {NoPayload} : RunReceived(p)
    \/ RunSend
    \/ RunSleep
    \/ RunDropped
    \/ ScTryReceive

----------------------------------------------------------------------------
(* VoiceActivityDetector (src-tauri/src/modules/audio/vad.rs)              *)
(*                                                                         *)
(* Samples are integers, 4 being full scale; an energy is the mean of the  *)
(* squares in the same unit. Where f32 rounds, the model truncates to its  *)
(* unit. dBFS is measured in steps of 6 dB (one doubling of the energy).   *)

Amplitudes == {0, 2, 4}

\* The frames given to detect: empty, one sample, two samples.
Frames == {<<>>} \cup {<<a>> : a \in Amplitudes}
                 \cup {<<a, b>> : a \in Amplitudes, b \in Amplitudes}

FullScaleEnergy == 4 * 4

RECURSIVE SumSq(_)
\* frame.iter().map(|&x| x * x).sum()
SumSq(frame) ==
    IF frame = <<>> THEN 0
    ELSE Head(frame) * Head(frame) + SumSq(Tail(frame))

\* calculate_energy(frame): 0.0 for an empty frame, else the mean square
CalculateEnergy(frame) ==
    IF frame = <<>> THEN 0 ELSE SumSq(frame) \div Len(frame)

RECURSIVE Log2(_)
\* the number of doublings from 1 to n, for n >= 1
Log2(n) == IF n <= 1 THEN 0 ELSE 1 + Log2(n \div 2)

\* f32::NEG_INFINITY
NegInfinity == -1000

\* energy_to_dbfs(energy): -inf for energy <= 0, else 20 * log10(energy)
EnergyToDbfs(energy) ==
    IF energy <= 0 THEN NegInfinity
    ELSE 6 * (Log2(energy) - Log2(FullScaleEnergy))

\* The smoothing factors of the model: 0, 1/2 and 1.
Smoothings == { [num |-> 0, den |-> 1], [num |-> 1, den |-> 2],
                [num |-> 1, den |-> 1] }

\* The configurations a detector is constructed with.
VadConfigs ==
    [threshold_db : {0 - 15}, smoothing_factor : Smoothings,
     silence_timeout_frames : 1 .. MaxTimeout,
     min_speech_frames : 0 .. MaxMinSpeech]

\* smoothing_factor * energy + (1.0 - smoothing_factor) * smoothed_energy
Smooth(cfg, energy, old) ==
    (cfg.smoothing_factor.num * energy
       + (cfg.smoothing_factor.den - cfg.smoothing_factor.num) * old)
    \div cfg.smoothing_factor.den

\* if smoothing_factor > 0.0 { smoothed_energy } else { energy }
DetectionEnergy(cfg, smoothed, energy) ==
    IF cfg.smoothing_factor.num > 0 THEN smoothed ELSE energy

\* is_speech of a frame given to a detector whose smoothed energy is old
IsSpeech(cfg, old, frame) ==
    EnergyToDbfs(DetectionEnergy(cfg, Smooth(cfg, CalculateEnergy(frame), old),
                                 CalculateEnergy(frame))) > cfg.threshold_db

\* VoiceActivityDetector::new(config): the fields after construction
FreshDetector == [state |-> "Silence", smoothed_energy |-> 0,
                  silence_frames |-> 0, speech_frames |-> 0]

\* Mutant of SilenceAfterSpeechFrame: a speech frame leaves the count alone.
SilenceAfterSpeechFrameKept(n) == n

\* Speech, is_speech: self.silence_frames = 0
SilenceAfterSpeechFrame(n) == 0

\* Mutant of StateAtTimeout: every segment ends with Ending.
StateAtTimeoutAlwaysEnding(speech_frames, min_speech_frames) == "Ending"

\* if self.speech_frames >= self.config.min_speech_frames { Ending }
\* else { Silence }
StateAtTimeout(speech_frames, min_speech_frames) ==
    IF speech_frames >= min_speech_frames THEN "Ending" ELSE "Silence"

\* Mutant of StateAfterEnding: a speech frame in Ending starts a segment.
StateAfterEndingSpeech(is_speech) == IF is_speech THEN "Speech" ELSE "Silence"

\* VadState::Ending => self.state = VadState::Silence
StateAfterEnding(is_speech) == "Silence"

\* detect(frame): the fields afterwards; detect returns the new state
Detect(cfg, d, frame) ==
    LET smoothed  == Smooth(cfg, CalculateEnergy(frame), d.smoothed_energy)
        is_speech == IsSpeech(cfg, d.smoothed_energy, frame)
        e         == [d EXCEPT !.smoothed_energy = smoothed]
    IN  CASE d.state = "Silence" ->
                 IF is_speech
                 THEN [e EXCEPT !.speech_frames = 1, !.silence_frames = 0,
                                !.state = "Speech"]
                 ELSE e
          [] d.state = "Speech" ->
                 IF is_speech
                 THEN [e EXCEPT !.speech_frames = d.speech_frames + 1,
                                !.silence_frames =
                                    SilenceAfterSpeechFrame(d.silence_frames)]
                 ELSE IF d.silence_frames + 1 >= cfg.silence_timeout_frames
                      THEN [e EXCEPT !.silence_frames = d.silence_frames + 1,
                                     !.state = StateAtTimeout(
                                                   d.speech_frames,
                                                   cfg.min_speech_frames),
                                     !.speech_frames = 0]
                      ELSE [e EXCEPT !.silence_frames = d.silence_frames + 1]
          [] OTHER ->
                 [e EXCEPT !.state = StateAfterEnding(is_speech),
                           !.silence_frames = 0]

\* Mutant of ResetDetector: reset() leaves the speech-frame counter alone.
ResetDetectorKeepsCount(d) ==
    [FreshDetector EXCEPT !.speech_frames = d.speech_frames]

\* Mutant of ResetDetector: reset() forgets the smoothed energy.
ResetDetectorKeepsEnergy(d) ==
    [FreshDetector EXCEPT !.smoothed_energy = d.smoothed_energy]

\* reset(): state = Silence, both counters 0, smoothed_energy = 0.0
ResetDetector(d) == FreshDetector

NoVadCall == [op |-> "none", out |-> "none", fresh_out |-> "none",
              resets |-> 0, pre |-> FreshDetector]

\* The detector the model starts with; VadConstruct replaces it.
InitVad ==
    /\ vad_config = [threshold_db |-> 0 - 15,
                     smoothing_factor |-> [num |-> 0, den |-> 1],
                     silence_timeout_frames |-> 1, min_speech_frames |-> 0]
    /\ vad = FreshDetector
    /\ vad_cls = <<>>
    /\ vad_out = <<>>
    /\ vad_fresh = FreshDetector
    /\ vadlast = NoVadCall

\* VoiceActivityDetector::new(config), before the first call
VadConstruct(cfg) ==
    /\ vadlast.op = "none"
    /\ vad_config' = cfg
    /\ vad' = FreshDetector
    /\ vad_fresh' = FreshDetector
    /\ vadlast' = [NoVadCall EXCEPT !.op = "new"]
    /\ UNCHANGED <<vad_cls, vad_out, nonVadVars>>

\* detect(frame)
VadDetect(frame) ==
    /\ Len(vad_out) < MaxFrames
    /\ vad' = Detect(vad_config, vad, frame)
    /\ vad_cls' = Append(vad_cls, IsSpeech(vad_config, vad.smoothed_energy,
                                           frame))
    /\ vad_out' = Append(vad_out, vad'.state)
    /\ vad_fresh' = Detect(vad_config, vad_fresh, frame)
    /\ vadlast' = [vadlast EXCEPT !.op = "detect", !.out = vad'.state,
                                  !.fresh_out = vad_fresh'.state,
                                  !.pre = FreshDetector]
    /\ UNCHANGED <<vad_config, nonVadVars>>

\* reset(); the history starts again, as does the detector to compare with
VadReset ==
    /\ vadlast.resets < MaxResets
    /\ vad' = ResetDetector(vad)
    /\ vad_fresh' = FreshDetector
    /\ vad_cls' = <<>>
    /\ vad_out' = <<>>
    /\ vadlast' = [op |-> "reset", out |-> "none", fresh_out |-> "none",
                   resets |-> vadlast.resets + 1, pre |-> vad]
    /\ UNCHANGED <<vad_config, nonVadVars>>

NextVad ==
    \/ \E cfg \in VadConfigs : VadConstruct(cfg)
    \/ \E frame \in Frames : VadDetect(frame)
    \/ VadReset

----------------------------------------------------------------------------
(* AudioResampler and BatchResampler                                      *)
(* (src-tauri/src/modules/audio/resampler.rs)                              *)
(*                                                                         *)
(* The rubato resampler is outside the repository: whether it accepts a    *)
(* chunk is the environment's choice, and what it returns for a chunk is a *)
(* 2:1 reduction of the chunk. The samples given to BatchResampler are     *)
(* numbered 1, 2, 3, ... in the order they are given.                      *)

\* chunk_size of AudioResampler::new: 0 for equal rates, else 128
ChunkSizeOf(equal) == IF equal THEN 0 ELSE ChunkSize

\* needs_resampling(): input_rate != output_rate
NeedsResampling(equal) == ~equal

\* What the rubato resampler returns for a chunk it accepts.
Resampled(chunk) ==
    [i \in 1 .. Len(chunk) \div 2 |-> chunk[2 * i - 1] + chunk[2 * i]]

Ok(out) == [res |-> "Ok", out |-> out]
ResamplingFailed == [res |-> "ResamplingFailed", out |-> <<>>]

\* Mutant of ArProcess: the input goes to the rubato resampler whatever the
\* rates are.
ArProcessAlwaysResamples(equal, input, ok) ==
    IF ok THEN Ok(Resampled(input)) ELSE ResamplingFailed

\* AudioResampler::process(input); ok is the rubato resampler's answer
ArProcess(equal, input, ok) ==
    IF equal THEN Ok(input)
    ELSE IF ok THEN Ok(Resampled(input)) ELSE ResamplingFailed

\* the rubato resampler was called and failed
InnerFailed(equal, ok) == ~equal /\ ~ok

\* Mutant of AfterChunk: a failed chunk is skipped.
AfterChunkSkipsFailure(output, r) ==
    IF r.res = "Ok" THEN Ok(output \o r.out) ELSE Ok(output)

\* let processed = self.resampler.process(&chunk)?;
\* output.extend_from_slice(&processed);
AfterChunk(output, r) ==
    IF r.res = "Ok" THEN Ok(output \o r.out) ELSE ResamplingFailed

\* Mutant of Drain: the whole buffer goes with the chunk.
DrainAll(buf, n) == <<>>

\* self.buffer.drain(..chunk_size)
Drain(buf, n) == SubSeq(buf, n + 1, Len(buf))

\* Mutant of Resize: the chunk is not padded.
ResizeNoPadding(chunk, n) == SubSeq(chunk, 1, Min(n, Len(chunk)))

\* chunk.resize(chunk_size, 0.0)
Resize(chunk, n) == [i \in 1 .. n |-> IF i <= Len(chunk) THEN chunk[i] ELSE 0]

NoRsCall == [op |-> "none", input |-> <<>>, res |-> "none", out |-> <<>>,
             handed |-> <<>>, failed |-> FALSE, buffer0 |-> <<>>,
             drained0 |-> 0, prev |-> "none", prev_res |-> "none"]

\* The call entered in the current state.
RsCall(op, input) == [NoRsCall EXCEPT !.op = op, !.input = input,
                                      !.res = Pending,
                                      !.buffer0 = br_buffer,
                                      !.drained0 = rs_drained,
                                      !.prev = rslast.op,
                                      !.prev_res = rslast.res]

\* The resamplers the model starts with; RsConstruct replaces them.
InitResampler ==
    /\ rs_equal = FALSE
    /\ br_buffer = <<>>
    /\ br_pc = "idle"
    /\ br_output = <<>>
    /\ rs_fed = 0
    /\ rs_drained = 0
    /\ rslast = NoRsCall

\* AudioResampler::new / BatchResampler::new(input_rate, output_rate),
\* before the first call
RsConstruct(equal) ==
    /\ rslast.op = "none"
    /\ rs_equal' = equal
    /\ rslast' = [NoRsCall EXCEPT !.op = "new"]
    /\ UNCHANGED <<br_buffer, br_pc, br_output, rs_fed, rs_drained, nonRsVars>>

\* AudioResampler::process(input) on a resampler used on its own
ArCall(len, ok) ==
    LET input == Slice(0, len)
        r     == ArProcess(rs_equal, input, ok)
    IN  /\ br_pc = "idle"
        /\ rslast' = [RsCall("ar_process", input) EXCEPT
                          !.res = r.res, !.out = r.out,
                          !.handed = IF rs_equal THEN <<>> ELSE <<input>>,
                          !.failed = InnerFailed(rs_equal, ok)]
        /\ UNCHANGED <<rs_equal, br_buffer, br_pc, br_output, rs_fed,
                       rs_drained, nonRsVars>>

\* BatchResampler::process(input): self.buffer.extend_from_slice(input)
BrProcess(len) ==
    LET input == Slice(rs_fed, len)
    IN  /\ br_pc = "idle"
        /\ rs_fed + len <= MaxResampled
        /\ br_buffer' = br_buffer \o input
        /\ rs_fed' = rs_fed + len
        /\ br_output' = <<>>
        /\ br_pc' = "loop"
        /\ rslast' = RsCall("process", input)
        /\ UNCHANGED <<rs_equal, rs_drained, nonRsVars>>

\* One iteration of `while self.buffer.len() >= chunk_size`; the `?` leaves
\* process when the chunk fails.
BrLoop(ok) ==
    LET chunk_size == ChunkSizeOf(rs_equal)
        chunk      == SubSeq(br_buffer, 1, chunk_size)
        r          == AfterChunk(br_output, ArProcess(rs_equal, chunk, ok))
        handed     == IF rs_equal THEN rslast.handed
                      ELSE Append(rslast.handed, chunk)
    IN  /\ br_pc = "loop"
        /\ Len(br_buffer) >= chunk_size
        /\ IF r.res = "Ok"
           THEN /\ br_output' = r.out
                /\ br_buffer' = Drain(br_buffer, chunk_size)
                /\ rs_drained' = rs_drained + chunk_size
                /\ rslast' = [rslast EXCEPT
                                  !.handed = handed,
                                  !.failed = @ \/ InnerFailed(rs_equal, ok)]
                /\ UNCHANGED br_pc
           ELSE /\ br_pc' = "idle"
                /\ br_output' = <<>>
                /\ rslast' = [rslast EXCEPT !.res = r.res, !.handed = handed,
                                            !.failed = TRUE]
                /\ UNCHANGED <<br_buffer, rs_drained>>
        /\ UNCHANGED <<rs_equal, rs_fed, nonRsVars>>

\* The while condition is false: Ok(output)
BrReturn ==
    /\ br_pc = "loop"
    /\ Len(br_buffer) < ChunkSizeOf(rs_equal)
    /\ br_pc' = "idle"
    /\ br_output' = <<>>
    /\ rslast' = [rslast EXCEPT !.res = "Ok", !.out = br_output]
    /\ UNCHANGED <<rs_equal, br_buffer, rs_fed, rs_drained, nonRsVars>>

\* BatchResampler::flush()
BrFlush(ok) ==
    LET chunk == Resize(br_buffer, ChunkSizeOf(rs_equal))
        r     == AfterChunk(<<>>, ArProcess(rs_equal, chunk, ok))
        call  == RsCall("flush", <<>>)
    IN  /\ br_pc = "idle"
        /\ IF br_buffer # <<>>
           THEN /\ rslast' = [call EXCEPT
                                  !.res = r.res, !.out = r.out,
                                  !.handed = IF rs_equal THEN <<>>
                                             ELSE <<chunk>>,
                                  !.failed = InnerFailed(rs_equal, ok)]
                /\ IF r.res = "Ok"
                   THEN /\ br_buffer' = <<>>
                        /\ rs_drained' = rs_drained + Len(br_buffer)
                   ELSE UNCHANGED <<br_buffer, rs_drained>>
           ELSE /\ rslast' = [call EXCEPT !.res = "Ok"]
                /\ UNCHANGED <<br_buffer, rs_drained>>
        /\ UNCHANGED <<rs_equal, br_pc, br_output, rs_fed, nonRsVars>>

NextResampler ==
    \/ \E equal \in BOOLEAN : RsConstruct(equal)
    \/ \E len \in 0 .. MaxInputLen, ok \in BOOLEAN : ArCall(len, ok)
    \/ \E len \in 0 .. MaxInputLen : BrProcess(len)
    \/ \E ok \in BOOLEAN : BrLoop(ok)
    \/ BrReturn
    \/ \E ok \in BOOLEAN : BrFlush(ok)

----------------------------------------------------------------------------
(* AudioCapturer (src-tauri/src/modules/audio/capture.rs)                  *)
(*                                                                         *)
(* The capturer's methods run on the caller's thread, one at a time; the   *)
(* data callback runs on the audio thread of a stream from the moment the  *)
(* stream is built until it is dropped, and an invocation that has begun   *)
(* may still finish after that. A step of either thread is one access to   *)
(* the running flag or one call of the RingBuffer, which is behind its     *)
(* mutex. Every sample captured is the number of the epoch (the time       *)
(* between two stop() calls) in which its callback began.                  *)

CbIdle == [pc |-> "idle", saw |-> FALSE, epoch |-> 0, during |-> "idle"]

NoCapCall == [op |-> "none", res |-> "none", how |-> "none", some |-> FALSE,
              data |-> <<>>, prev |-> "none", stream0 |-> 0,
              builds0 |-> 0, device0 |-> FALSE]

\* The record of a method entered in the current state.
CapCall(op) == [NoCapCall EXCEPT !.op = op, !.res = Pending,
                                 !.prev = caplast.op,
                                 !.stream0 = cap_stream,
                                 !.builds0 = cap_builds,
                                 !.device0 = cap_device]

NoCallback == [op |-> "none", saw |-> FALSE, wrote |-> FALSE, during |-> "idle",
               epoch |-> 0, ended |-> 0]

\* AudioCapturer::new()
InitCapturer ==
    /\ cap_device = FALSE
    /\ cap_stream = 0
    /\ is_running = FALSE
    /\ cap_pc = "idle"
    /\ cap_local = 0
    /\ cb = CbIdle
    /\ cap_builds = 0
    /\ cap_epoch = 1
    /\ cap_cbs = 0
    /\ caplast = NoCapCall
    /\ cblast = NoCallback

\* configure(config): self.device = the device found, if any
CapConfigure(found) ==
    /\ cap_pc = "idle"
    /\ cap_device' = found
    /\ caplast' = [CapCall("configure") EXCEPT
                      !.res = IF found THEN "Ok" ELSE "NoDevice"]
    /\ UNCHANGED <<cap_stream, is_running, cap_pc, cap_local, cb, cap_builds,
                   cap_epoch, cap_cbs, cblast, ringVars, nonCapVars>>

\* start(), up to device.build_input_stream(..)
CapStart(buildOk) ==
    /\ cap_pc = "idle"
    /\ IF cap_stream # 0
       THEN /\ caplast' = [CapCall("start") EXCEPT !.res = "Ok",
                                                   !.how = "already"]
            /\ UNCHANGED <<cap_pc, cap_local, cap_builds>>
       ELSE IF ~cap_device
       THEN /\ caplast' = [CapCall("start") EXCEPT !.res = "NoDevice",
                                                   !.how = "no device"]
            /\ UNCHANGED <<cap_pc, cap_local, cap_builds>>
       ELSE IF buildOk
       THEN /\ cap_builds < MaxBuilds
            /\ cap_builds' = cap_builds + 1
            /\ cap_local' = cap_builds + 1
            /\ cap_pc' = "start_built"
            /\ caplast' = [CapCall("start") EXCEPT !.how = "built"]
       ELSE /\ caplast' = [CapCall("start") EXCEPT
                              !.res = "StreamCreationFailed",
                              !.how = "build failed"]
            /\ UNCHANGED <<cap_pc, cap_local, cap_builds>>
    /\ UNCHANGED <<cap_device, cap_stream, is_running, cb, cap_epoch, cap_cbs,
                   cblast, ringVars, nonCapVars>>

\* start(): stream.play(); on an error the local stream is dropped
CapStartPlay(playOk) ==
    /\ cap_pc = "start_built"
    /\ IF playOk
       THEN /\ cap_pc' = "start_played"
            /\ UNCHANGED <<cap_local, caplast>>
       ELSE /\ cap_pc' = "idle"
            /\ cap_local' = 0
            /\ caplast' = [caplast EXCEPT !.res = "StreamCreationFailed",
                                          !.how = "play failed"]
    /\ UNCHANGED <<cap_device, cap_stream, is_running, cb, cap_builds,
                   cap_epoch, cap_cbs, cblast, ringVars, nonCapVars>>

\* start(): is_running.store(true); self.stream = Some(stream); Ok(())
CapStartStore ==
    /\ cap_pc = "start_played"
    /\ is_running' = TRUE
    /\ cap_stream' = cap_local
    /\ cap_local' = 0
    /\ cap_pc' = "idle"
    /\ caplast' = [caplast EXCEPT !.res = "Ok"]
    /\ UNCHANGED <<cap_device, cb, cap_builds, cap_epoch, cap_cbs, cblast,
                   ringVars, nonCapVars>>

\* stop(), or the stop() of Drop: is_running.store(false)
CapStop(op) ==
    /\ cap_pc = "idle"
    /\ cap_epoch <= MaxStops
    /\ is_running' = FALSE
    /\ cap_epoch' = cap_epoch + 1
    /\ cap_pc' = "stop_stored"
    /\ caplast' = CapCall(op)
    /\ UNCHANGED <<cap_device, cap_stream, cap_local, cb, cap_builds, cap_cbs,
                   cblast, ringVars, nonCapVars>>

\* Mutant of StreamAfterStop: the stream is kept.
StreamAfterStopKept(stream) == stream

\* if let Some(stream) = self.stream.take() { drop(stream) }
StreamAfterStop(stream) == 0

\* stop(): the stream is taken and dropped; Ok(())
CapStopTake ==
    /\ cap_pc = "stop_stored"
    /\ cap_stream' = StreamAfterStop(cap_stream)
    /\ cap_pc' = IF caplast.op = "drop" THEN "dropped" ELSE "idle"
    /\ caplast' = [caplast EXCEPT !.res = "Ok"]
    /\ UNCHANGED <<cap_device, is_running, cap_local, cb, cap_builds,
                   cap_epoch, cap_cbs, cblast, ringVars, nonCapVars>>

\* read_frame(max_samples): self.ring_buffer.read(max_samples)?
CapReadFrame(size) ==
    LET n == ToRead(size, write_pos, read_pos)
    IN  /\ cap_pc = "idle"
        /\ IF Used(write_pos, read_pos) = 0
           THEN /\ caplast' = CapCall("read_frame")
                /\ UNCHANGED read_pos
           ELSE /\ read_pos' = NewReadPos(read_pos, size, n)
                /\ caplast' = [CapCall("read_frame") EXCEPT
                                  !.res = "Some", !.some = TRUE,
                                  !.data = ReadLoop(buffer, read_pos, n)]
        /\ UNCHANGED <<buffer, write_pos, ringHist, cap_device, cap_stream,
                       is_running, cap_pc, cap_local, cb, cap_builds,
                       cap_epoch, cap_cbs, cblast, nonCapVars>>

\* A stream exists whose audio thread invokes the callback.
StreamAlive == cap_stream # 0 \/ cap_local # 0

\* The data callback begins: is_running.load(Ordering::SeqCst)
CbBegin ==
    /\ cb.pc = "idle"
    /\ StreamAlive
    /\ cap_cbs < MaxCallbacks
    /\ cap_cbs' = cap_cbs + 1
    /\ cb' = [pc |-> "loaded", saw |-> is_running, epoch |-> cap_epoch,
              during |-> cap_pc]
    /\ UNCHANGED <<cap_device, cap_stream, is_running, cap_pc, cap_local,
                   cap_builds, cap_epoch, caplast, cblast, ringVars,
                   nonCapVars>>

\* Mutant of WritesWhen: the callback writes whatever it loaded.
WritesAlways(saw) == TRUE

\* if is_running.load(..) { ring_buffer.write(data) }
WritesWhen(saw) == saw

\* The callback has returned.
CbDone(wrote) == [op |-> "callback", saw |-> cb.saw, wrote |-> wrote,
                  during |-> cb.during, epoch |-> cb.epoch,
                  ended |-> cap_epoch]

\* The callback: ring_buffer.write(data), data being len samples
CbWrite(len) ==
    LET data == [i \in 1 .. len |-> cb.epoch]
        n    == ToWrite(len, write_pos, read_pos)
    IN  /\ cb.pc = "loaded"
        /\ WritesWhen(cb.saw)
        /\ buffer' = StoreLoop(buffer, write_pos, data, 0, n)
        /\ write_pos' = NewWritePos(write_pos, n)
        /\ cb' = CbIdle
        /\ cblast' = CbDone(TRUE)
        /\ UNCHANGED <<read_pos, ringHist, cap_device, cap_stream, is_running,
                       cap_pc, cap_local, cap_builds, cap_epoch, cap_cbs,
                       caplast, nonCapVars>>

\* The callback: the flag was not set, nothing is written
CbSkip ==
    /\ cb.pc = "loaded"
    /\ ~WritesWhen(cb.saw)
    /\ cb' = CbIdle
    /\ cblast' = CbDone(FALSE)
    /\ UNCHANGED <<cap_device, cap_stream, is_running, cap_pc, cap_local,
                   cap_builds, cap_epoch, cap_cbs, caplast, ringVars,
                   nonCapVars>>

NextCapturer ==
    \/ \E found \in BOOLEAN : CapConfigure(found)
    \/ \E buildOk \in BOOLEAN : CapStart(buildOk)
    \/ \E playOk \in BOOLEAN : CapStartPlay(playOk)
    \/ CapStartStore
    \/ \E op \in {"stop", "drop"} : CapStop(op)
    \/ CapStopTake
    \/ \E size \in 1 .. MaxReadSize : CapReadFrame(size)
    \/ CbBegin
    \/ \E len \in 1 .. MaxCaptureLen : CbWrite(len)
    \/ CbSkip

----------------------------------------------------------------------------
(* ScribeClient::receive_response                                          *)

\* The Result<Option<TranscriptionResult>, NetworkError> of receive_response.
Response(res, text, is_final) == [res |-> res, text |-> text, is_final |-> is_final]

\* receive_response(): the match on the event receive_event returned
ReceiveResponse(ev) ==
    CASE ev.type = "PartialTranscript" -> Response("Some", ev.text, FALSE)
      [] ev.type = "CommittedTranscript" -> Response("Some", ev.text, TRUE)
      [] ev.type = "Error" -> Response("ReceiveError", "", FALSE)
      [] ev.type = "Disconnected" -> Response("ConnectionLost", "", FALSE)
      [] OTHER -> Response("None", "", FALSE)


----------------------------------------------------------------------------
(* RingBuffer: available() and clear() beside the writer and the reader.   *)
(* available() takes no lock: its two loads are two steps, and any step of *)
(* another thread may fall between them. clear() holds the lock and stores *)
(* the two cursors one after the other.                                    *)

\* The number of samples taken out of the buffer so far, by read or clear.
Removed == Len(accepted) - Len(stored)

\* The same, the samples of a clear() that has stored the first cursor and
\* not yet the second counted as taken out already.
RemovedEarly == IF ct = "store_r" THEN Len(accepted) ELSE Removed

ObserverIdle == [pc |-> "idle", w |-> 0, acc0 |-> 0, rem0 |-> 0, calls |-> 0,
                 ret |-> 0, least |-> 0, most |-> 0]

InitObs ==
    /\ at = ObserverIdle
    /\ ct = "idle"

\* a thread calls available()
ACall ==
    /\ at.pc = "idle"
    /\ at.calls < MaxAvailCalls
    /\ at' = [at EXCEPT !.pc = "load_w", !.acc0 = Len(accepted),
                        !.rem0 = Removed]
    /\ UNCHANGED <<ringVars, ct, nonObsVars>>

\* let write_pos = self.write_pos.load(SeqCst);
ALoadW ==
    /\ at.pc = "load_w"
    /\ at' = [at EXCEPT !.pc = "load_r", !.w = write_pos]
    /\ UNCHANGED <<ringVars, ct, nonObsVars>>

\* let read_pos = self.read_pos.load(SeqCst); available() returns
\* (write_pos - read_pos + capacity) % capacity. With the value, the thread
\* keeps the least and the greatest number of samples that can have been
\* stored at an instant of the call: those accepted when it began less those
\* removed when it ends, and those accepted when it ends less those removed
\* when it began. The samples of a clear() that is between its two stores
\* count as stored and as removed, whichever is the more lenient.
ALoadR ==
    /\ at.pc = "load_r"
    /\ at' = [ObserverIdle EXCEPT !.calls = at.calls + 1,
                                  !.ret = Used(at.w, read_pos),
                                  !.least = SatSub(at.acc0, RemovedEarly),
                                  !.most = Len(accepted) - at.rem0]
    /\ UNCHANGED <<ringVars, ct, nonObsVars>>

\* the writer thread calls write(data) beside available()
AvWCall(len) ==
    /\ offered + len <= MaxAvailOffered
    /\ WCall(len)

\* a thread calls clear(), once in a behaviour
CCall ==
    /\ ct = "idle"
    /\ ~cleared
    /\ ct' = "lock"
    /\ UNCHANGED <<ringVars, at, nonObsVars>>

\* let mut buffer = self.buffer.lock().unwrap();
CLock ==
    /\ ct = "lock"
    /\ LockFree
    /\ lock' = "clearer"
    /\ ct' = "store_w"
    /\ UNCHANGED <<buffer, write_pos, read_pos, offered, accepted, returned,
                   stored, cleared, last, wt, rt, at, nonObsVars>>

\* self.write_pos.store(0, SeqCst);
CStoreW ==
    /\ ct = "store_w"
    /\ write_pos' = 0
    /\ ct' = "store_r"
    /\ UNCHANGED <<buffer, read_pos, offered, accepted, returned, stored,
                   cleared, last, lock, wt, rt, at, nonObsVars>>

\* self.read_pos.store(0, SeqCst): the buffer is empty again
CStoreR ==
    /\ ct = "store_r"
    /\ read_pos' = 0
    /\ stored' = <<>>
    /\ cleared' = TRUE
    /\ ct' = "fill"
    /\ UNCHANGED <<buffer, write_pos, offered, accepted, returned, last, lock,
                   wt, rt, at, nonObsVars>>

\* buffer.fill(0.0); the MutexGuard is dropped
CFill ==
    /\ ct = "fill"
    /\ buffer' = [i \in 0 .. Capacity - 1 |-> 0]
    /\ lock' = "none"
    /\ ct' = "idle"
    /\ UNCHANGED <<write_pos, read_pos, offered, accepted, returned, stored,
                   cleared, last, wt, rt, at, nonObsVars>>

NextAvail ==
    \/ \E len \in 1 .. MaxAvailLen : AvWCall(len)
    \/ WLock
    \/ WLoadW
    \/ WLoadR
    \/ WStore
    \/ WPublish
    \/ WUnlock
    \/ \E size \in 1 .. MaxAvailLen : RCall(size)
    \/ RLock
    \/ RLoadW
    \/ RLoadR
    \/ RCopy
    \/ RPublish
    \/ RUnlock
    \/ ACall
    \/ ALoadW
    \/ ALoadR
    \/ CCall
    \/ CLock
    \/ CStoreW
    \/ CStoreR
    \/ CFill


----------------------------------------------------------------------------
(* The construction of the clients                                         *)
(* (websocket.rs:119-137, scribe_client.rs:127-148)                        *)
(*                                                                         *)
(* A WebSocketConfig is its url and its connect_timeout_secs; the other    *)
(* three fields are never read. connect() reads both from self.config      *)
(* (websocket.rs:149, 165), which nothing assigns after construction.      *)

\* WebSocketConfig::default().url and ScribeConfig::default().endpoint
DefaultUrl == "wss://api.elevenlabs.io/v1/scribe"

\* WebSocketConfig::default()
DefaultWsConfig == [url |-> DefaultUrl, connect_timeout_secs |-> ConnectTimeoutSecs]

\* The endpoints a caller may name.
Urls == {DefaultUrl, "wss://scribe.example/v2"}

\* The configurations a caller may hand to with_config.
WsConfigs == [url : Urls, connect_timeout_secs : {ConnectTimeoutSecs, 5}]

\* The client of the model before any constructor is chosen:
\* WebSocketClient::new()
InitConfig ==
    /\ ws_cfg = DefaultWsConfig
    /\ cfg_given = [by |-> "new", config |-> DefaultWsConfig]

\* WebSocketClient::with_config(config): Self::new(), whose config is
\* WebSocketConfig::default(); the argument is dropped
WithConfig(config) == DefaultWsConfig

\* What connect() dials and how long it waits: self.config.url in the
\* request, Duration::from_secs(self.config.connect_timeout_secs)
Dialed == [url |-> ws_cfg.url, connect_timeout_secs |-> ws_cfg.connect_timeout_secs]

\* The client has just been constructed and no method has been called.
JustConstructed ==
    /\ wslast.op = "none"
    /\ sclast.op = "none"
    /\ cfg_given.by = "new"

\* WebSocketClient::with_config(config), in place of WebSocketClient::new()
WsWithConfig(config) ==
    /\ JustConstructed
    /\ ws_cfg' = WithConfig(config)
    /\ cfg_given' = [by |-> "with_config", config |-> config]
    /\ UNCHANGED <<wsVars, scVars, nonCfgVars>>

\* ScribeClient::new(config) with config.endpoint = endpoint:
\* ws_config = WebSocketConfig { url: endpoint, ..Default::default() };
\* ws_client: WebSocketClient::with_config(ws_config)
ScNew(endpoint) ==
    /\ JustConstructed
    /\ ws_cfg' = WithConfig([DefaultWsConfig EXCEPT !.url = endpoint])
    /\ cfg_given' = [by |-> "ScribeClient::new",
                     config |-> [DefaultWsConfig EXCEPT !.url = endpoint]]
    /\ UNCHANGED <<wsVars, scVars, nonCfgVars>>

\* A client is constructed and then used as a session.
NextConfig ==
    \/ \E config \in WsConfigs : WsWithConfig(config)
    \/ \E endpoint \in Urls : ScNew(endpoint)
    \/ NextScribe


----------------------------------------------------------------------------
(* The commands (src-tauri/src/commands.rs) and AppState (state.rs)        *)
(*                                                                         *)
(* Every command is an async fn that the tauri runtime runs as a task of   *)
(* its multi-threaded executor, so two commands run side by side. The      *)
(* recording commands touch the flag of AppState only. The network         *)
(* commands share one ScribeClient behind a TauriMutex: a command holds    *)
(* the guard from client.lock().await to its return, across every await    *)
(* of the ScribeClient method it calls.                                    *)

\* The tasks that execute commands.
Tasks == 1 .. NumTasks

RecordingCommands == {"start_listen", "stop_listen"}

NetworkCommands == {"connect_scribe", "disconnect_scribe",
                    "get_connection_status", "send_audio_chunk",
                    "receive_transcription"}

\* A task that has executed no command yet.
NoCmd == [op |-> "none", pc |-> "idle", res |-> "none", saw |-> FALSE,
          rec0 |-> FALSE, conc |-> FALSE]

\* AppState::new(), the managed TauriMutex<ScribeClient>, idle tasks
InitApp ==
    /\ app_recording = FALSE
    /\ app_connected = FALSE
    /\ sess_lock = 0
    /\ cmd = [t \in Tasks |-> NoCmd]

\* The task is inside a command.
Executing(t) == cmd[t].pc # "idle"

\* Task t is given a recording command. rec0 is the flag at that moment,
\* conc whether a command of the same name overlaps this one on the other
\* task (not program state).
ListenCall(t, op) ==
    /\ ~Executing(t)
    /\ cmd' = [u \in Tasks |->
                 IF u = t
                 THEN [op |-> op, pc |-> "check", res |-> Pending,
                       saw |-> FALSE, rec0 |-> app_recording,
                       conc |-> \E v \in Tasks \ {t} :
                                    Executing(v) /\ cmd[v].op = op]
                 ELSE IF Executing(u) /\ cmd[u].op = op
                      THEN [cmd[u] EXCEPT !.conc = TRUE]
                      ELSE cmd[u]]
    /\ UNCHANGED <<app_recording, app_connected, sess_lock, wsVars, scVars,
                   nonAppVars>>

\* start_listen: if state.is_recording() { return Err("Already recording") }
\* stop_listen: if !state.is_recording() { return Err("Not recording") }
RefusedBy(op, recording) == IF op = "start_listen" THEN recording ELSE ~recording

\* The error string of a refused recording command.
Refusal(op) == IF op = "start_listen" THEN "Already recording" ELSE "Not recording"

\* state.is_recording(): the load, and the early return
ListenCheck(t) ==
    /\ cmd[t].pc = "check"
    /\ cmd' = [cmd EXCEPT ![t] =
                 IF RefusedBy(cmd[t].op, app_recording)
                 THEN [@ EXCEPT !.pc = "idle", !.saw = app_recording,
                                !.res = Refusal(cmd[t].op)]
                 ELSE [@ EXCEPT !.pc = "store", !.saw = app_recording]]
    /\ UNCHANGED <<app_recording, app_connected, sess_lock, wsVars, scVars,
                   nonAppVars>>

\* state.set_recording(true) in start_listen, state.set_recording(false) in
\* stop_listen; Ok(RecordingStatus { .. })
ListenStore(t) ==
    /\ cmd[t].pc = "store"
    /\ app_recording' = (cmd[t].op = "start_listen")
    /\ cmd' = [cmd EXCEPT ![t] = [@ EXCEPT !.pc = "idle", !.res = "Ok"]]
    /\ UNCHANGED <<app_connected, sess_lock, wsVars, scVars, nonAppVars>>

NextListen ==
    \/ \E t \in Tasks, op \in RecordingCommands : ListenCall(t, op)
    \/ \E t \in Tasks : ListenCheck(t)
    \/ \E t \in Tasks : ListenStore(t)

\* The connect() calls under way or still to come from commands given.
ConnectsDue ==
    Cardinality({t \in Tasks : /\ cmd[t].op = "connect_scribe"
                               /\ \/ cmd[t].pc = "lock"
                                  \/ cmd[t].pc = "held" /\ sclast.op = "command"})

\* Task t is given a network command: it arrives at client.lock().await
CmdCall(t, op) ==
    /\ ~Executing(t)
    /\ op = "connect_scribe" => attempts + ConnectsDue < MaxConnects
    /\ cmd' = [cmd EXCEPT ![t] = [NoCmd EXCEPT !.op = op, !.pc = "lock",
                                               !.res = Pending]]
    /\ UNCHANGED <<app_recording, app_connected, sess_lock, wsVars, scVars,
                   nonAppVars>>

\* client.lock().await completes when no task holds the guard. What follows
\* runs up to the ScribeClient method of the command; in connect_scribe,
\* guard.set_api_key(api_key) sets the key of the WebSocketClient and
\* guard.update_config(ScribeConfig { model_id, language_code,
\* ..Default::default() }) leaves config.api_key None.
CmdLock(t) ==
    /\ cmd[t].pc = "lock"
    /\ sess_lock = 0
    /\ sess_lock' = t
    /\ cmd' = [cmd EXCEPT ![t] = [@ EXCEPT !.pc = "held"]]
    /\ api_key' = IF cmd[t].op = "connect_scribe" THEN "valid" ELSE api_key
    /\ cfg_key' = IF cmd[t].op = "connect_scribe" THEN "none" ELSE cfg_key
    /\ wslast' = WsCall("command")
    /\ sclast' = ScCall("command")
    /\ UNCHANGED <<app_recording, app_connected, wsFields, session_id,
                   last_transcript, partial_buffer, sc_running, sc_pc,
                   scEvents, nonAppVars>>

\* The task that holds the guard is in command op and has not yet called
\* the ScribeClient method of the command.
Holds(op) ==
    /\ sess_lock # 0
    /\ cmd[sess_lock].op = op
    /\ cmd[sess_lock].pc = "held"
    /\ sclast.op = "command"
    /\ wslast.op = "command"

\* connect_scribe: guard.connect().await
CmdConnect == Holds("connect_scribe") /\ ScConnect

\* disconnect_scribe: guard.disconnect().await
CmdDisconnect == Holds("disconnect_scribe") /\ ScDisconnect

\* send_audio_chunk: guard.send_audio(&audio_data).await
CmdSendAudio(sendOk) == Holds("send_audio_chunk") /\ ScSendAudio(sendOk)

\* receive_transcription: guard.receive_response().await, which begins with
\* self.receive_event().await
CmdReceive == Holds("receive_transcription") /\ ScReceiveEvent

\* A frame arrives from the server, which sends no message before it has
\* received audio on the connection; it may close the connection any time.
CmdArrival(arrival) ==
    /\ arrival = "Text" =>
           \E i \in 1 .. Len(wire) : wire[i] = <<ws_stream, "input_audio_chunk">>
    /\ ScReceiveNext(arrival)

\* The ScribeClient method of the command has returned to the command.
Returned(op) ==
    CASE op = "connect_scribe" ->
             sc_pc = "idle" /\ sclast.op = "connect" /\ sclast.res # Pending
      [] op = "disconnect_scribe" ->
             sc_pc = "idle" /\ sclast.op = "disconnect" /\ sclast.res # Pending
      [] op = "send_audio_chunk" -> wslast.op = "send_audio"
      [] op = "receive_transcription" ->
             sc_pc = "idle" /\ sclast.op = "receive_event" /\ sclast.res # Pending
      [] OTHER -> TRUE

\* What the command returns.
CmdResult(op) ==
    CASE op = "connect_scribe" -> sclast.res
      [] op = "disconnect_scribe" -> "Ok"
      [] op = "send_audio_chunk" -> wslast.res
      [] op = "receive_transcription" ->
             IF sclast.res = "None" THEN "None"
             ELSE ReceiveResponse(sclast.event).res
      [] OTHER -> ws_state.kind

\* connect_scribe: Ok(_) => state.set_connected(true), Err(e) => nothing;
\* disconnect_scribe: state.set_connected(false); the other commands do not
\* touch the flag
ConnectedAfter(op, res, connected) ==
    CASE op = "connect_scribe" /\ res = "Ok" -> TRUE
      [] op = "disconnect_scribe" -> FALSE
      [] OTHER -> connected

\* The rest of the command after the ScribeClient method: the flag of
\* AppState, the result, and the guard is dropped. get_connection_status
\* calls no async method and gets here at once.
CmdReturn(t) ==
    /\ sess_lock = t
    /\ cmd[t].pc = "held"
    /\ Returned(cmd[t].op)
    /\ app_connected' = ConnectedAfter(cmd[t].op, CmdResult(cmd[t].op),
                                       app_connected)
    /\ sess_lock' = 0
    /\ cmd' = [cmd EXCEPT ![t] = [@ EXCEPT !.pc = "idle",
                                           !.res = CmdResult(cmd[t].op)]]
    /\ UNCHANGED <<app_recording, wsVars, scVars, nonAppVars>>

\* The network commands on connections that are accepted or refused.
NextCommands ==
    \/ \E t \in Tasks, op \in NetworkCommands : CmdCall(t, op)
    \/ \E t \in Tasks : CmdLock(t)
    \/ CmdConnect
    \/ ScConnectWs
    \/ ConnectEstablished
    \/ ConnectRejected
    \/ \E sendOk \in BOOLEAN : ScConnectConfig(sendOk)
    \/ ScConnectReturn
    \/ CmdDisconnect
    \/ ScCloseWs(TRUE)
    \/ ScDisconnectReturn
    \/ \E sendOk \in BOOLEAN : CmdSendAudio(sendOk)
    \/ CmdReceive
    \/ ScReceiveWs
    \/ \E arrival \in {"Text", "Close"} : CmdArrival(arrival)
    \/ \E p \in AnyPayload \cup {NoPayload} : ScReceiveReturn(p)
    \/ \E t \in Tasks : CmdReturn(t)


----------------------------------------------------------------------------
(* Specifications *)

Init ==
    /\ InitRing /\ InitHist /\ InitConc /\ InitWs /\ InitScribe /\ InitVad
    /\ InitResampler /\ InitCapturer /\ InitObs /\ InitConfig /\ InitApp

\* The RingBuffer, one call at a time.
Spec == Init /\ [][Next]_vars

\* The RingBuffer under one writer thread and one reader thread.
SpecConc == Init /\ [][NextConc]_vars

\* The RingBuffer under a writer, a reader, a thread that calls available()
\* and a thread that calls clear().
SpecAvail == Init /\ [][NextAvail]_vars

\* The WebSocketClient.
SpecWs == Init /\ [][NextWs]_vars

\* The tokio timer keeps running and fires when due, and the executor polls
\* a future whose timer has fired.
SpecWsFair == SpecWs /\ WF_vars(ConnectTick) /\ WF_vars(ConnectTimeout)

\* The ScribeClient and the WebSocketClient it owns: the connection.
SpecScribe == Init /\ [][NextScribe]_vars

\* The ScribeClient and the WebSocketClient it owns: the decoding.
SpecScribeRx == Init /\ [][NextScribeRx]_vars

\* The ScribeClient and the WebSocketClient it owns: the event channel.
SpecScribeRun == Init /\ [][NextScribeRun]_vars

\* run() is a task of the executor: while it can take its next step it
\* takes it. Whether its future is dropped is up to the caller.
SpecScribeRunFair ==
    /\ SpecScribeRun
    /\ WF_vars(RunLoop)
    /\ WF_vars(ScReceiveWs)
    /\ WF_vars(\E p \in AnyPayload \cup {NoPayload} : RunReceived(p))
    /\ WF_vars(RunSend)
    /\ WF_vars(RunSleep)

\* A client constructed with a configuration, then used as a session.
SpecConfig == Init /\ [][NextConfig]_vars

\* The recording commands.
SpecListen == Init /\ [][NextListen]_vars

\* The network commands.
SpecCommands == Init /\ [][NextCommands]_vars

\* The network commands as tasks of the executor: a task that can take its
\* next step takes it, the mutex of the runtime hands the guard to the
\* waiting tasks in turn (strong fairness: a waiting task is not passed over
\* for ever), a connection attempt is answered, and the server answers the
\* audio it has received.
SpecCommandsFair ==
    /\ SpecCommands
    /\ \A t \in Tasks : SF_vars(CmdLock(t)) /\ WF_vars(CmdReturn(t))
    /\ WF_vars(CmdConnect) /\ WF_vars(CmdDisconnect) /\ WF_vars(CmdReceive)
    /\ WF_vars(\E sendOk \in BOOLEAN : CmdSendAudio(sendOk))
    /\ WF_vars(ScConnectWs) /\ WF_vars(ConnectEstablished \/ ConnectRejected)
    /\ WF_vars(\E sendOk \in BOOLEAN : ScConnectConfig(sendOk))
    /\ WF_vars(ScConnectReturn) /\ WF_vars(ScCloseWs(TRUE))
    /\ WF_vars(ScDisconnectReturn) /\ WF_vars(ScReceiveWs)
    /\ WF_vars(CmdArrival("Text"))
    /\ WF_vars(\E p \in AnyPayload \cup {NoPayload} : ScReceiveReturn(p))

\* The VoiceActivityDetector.
SpecVad == Init /\ [][NextVad]_vars

\* The resamplers.
SpecResampler == Init /\ [][NextResampler]_vars

\* The resamplers, a call in progress running on: the loop of process takes
\* its next iteration, or returns, whenever it can.
SpecResamplerFair ==
    /\ SpecResampler
    /\ WF_vars(\E ok \in BOOLEAN : BrLoop(ok))
    /\ WF_vars(BrReturn)

\* The AudioCapturer and the audio thread of its stream.
SpecCapturer == Init /\ [][NextCapturer]_vars

----------------------------------------------------------------------------
(* Claims about the RingBuffer, one call at a time (Spec) *)

\* C1: after any sequence of write, read and clear calls on a RingBuffer of
\* capacity C >= 2, available() reports exactly the number of samples stored
\* and that number is at most C - 1: one slot is always kept free, so
\* write_pos = read_pos means empty, never full.
C1_AtMostCapacityMinusOne ==
    /\ Capacity >= 2
    /\ Available = Len(stored)
    /\ Available <= Capacity - 1
    /\ (write_pos = read_pos => stored = <<>>)

\* C1 witness: a write larger than the free space has filled the buffer to
\* C - 1 samples.
C1_Witness ==
    /\ last.op = "write"
    /\ last.ret < last.len
    /\ Available = Capacity - 1

\* C2: as long as clear() has not been called, the samples returned by the
\* read calls, concatenated, are a prefix of the samples accepted by the
\* write calls, concatenated; also when the cursors wrap.
C2_FifoPrefix ==
    ~cleared => IsPrefix(returned, accepted)

\* C2 witness: a read that crossed the end of the storage returned samples of
\* two different writes.
C2_Witness ==
    /\ ~cleared
    /\ last.op = "read"
    /\ last.ret >= 2
    /\ last.r0 + last.ret > Capacity
    /\ Len(returned) > Capacity

\* C3: write(data) on a buffer holding s samples returns min(len(data),
\* C - 1 - s), and afterwards the buffer holds the samples it held before
\* followed by exactly that many leading samples of data: nothing unread is
\* overwritten, the rest of data is dropped, the read cursor is untouched.
C3_WriteTruncates ==
    last.op = "write" =>
        /\ last.ret = Min(last.len, Capacity - 1 - Len(last.pre))
        /\ Live = last.pre \o SubSeq(last.data, 1, last.ret)
        /\ Available = Len(last.pre) + last.ret
        /\ read_pos = last.r0

\* C3 witness: a write into a buffer that already held samples was truncated
\* and wrapped past the end of the storage.
C3_Witness ==
    /\ last.op = "write"
    /\ last.pre # <<>>
    /\ 0 < last.ret
    /\ last.ret < last.len
    /\ last.w0 + last.ret > Capacity

\* C4: read(max) returns None iff nothing is buffered; None changes nothing;
\* otherwise it returns the min(max, stored) oldest samples, advances the
\* read cursor by that number, lowers available() by that number and leaves
\* the write cursor alone.
C4_ReadExact ==
    last.op = "read" =>
        /\ last.some <=> last.pre # <<>>
        /\ write_pos = last.w0
        /\ ~last.some => read_pos = last.r0 /\ Available = 0
        /\ last.some =>
            /\ last.ret = Min(last.len, Len(last.pre))
            /\ last.data = SubSeq(last.pre, 1, last.ret)
            /\ read_pos = (last.r0 + last.ret) % Capacity
            /\ Available = Len(last.pre) - last.ret

\* C4 witness: a read asked for more than was stored and got all of it.
C4_Witness ==
    /\ last.op = "read"
    /\ last.some
    /\ last.ret = Len(last.pre)
    /\ last.ret < last.len

\* C4 witness of the other branch: a read of an empty buffer returned None.
C4_WitnessNone ==
    /\ last.op = "read"
    /\ ~last.some
    /\ last.len > 0

----------------------------------------------------------------------------
(* Claims about the RingBuffer under one writer and one reader (SpecConc) *)

\* C5: with one writer thread in write and one reader thread in read, under
\* every interleaving of their steps, what the reader has returned or copied
\* so far is a prefix of the samples committed by the writer (no slot is read
\* before the write cursor that covers it was published, nothing is returned
\* twice or skipped), at most C - 1 samples are stored, and when no call is
\* in progress the buffer holds exactly the committed samples not yet read.
C5_OneWriterOneReader ==
    /\ IsPrefix(returned \o rt.result, accepted)
    /\ Len(stored) <= Capacity - 1
    /\ (wt.pc \in {"idle", "lock"} /\ rt.pc \in {"idle", "lock"}) =>
            /\ Available = Len(stored)
            /\ Live = stored
            /\ accepted = returned \o stored

\* C5 witness: the reader is copying a run of slots that wraps past the end
\* of the storage while the writer waits for the lock.
C5_Witness ==
    /\ wt.pc = "lock"
    /\ rt.pc = "copy"
    /\ rt.i >= 2
    /\ rt.r + rt.i > Capacity

----------------------------------------------------------------------------
(* Claims about the WebSocketClient (SpecWs, SpecWsFair) *)

\* C6: after connect() has returned, the state is Connected if it returned
\* Ok and Failed(reason) if it returned an error; it is never left at
\* Connecting, whatever made connect() fail.
C6_ConnectEndsConnectedOrFailed ==
    (wslast.op = "connect" /\ wslast.res # Pending) =>
        /\ wslast.res = "Ok" => ws_state = Connected
        /\ wslast.res # "Ok" => ws_state.kind = "Failed"
        /\ ws_state # Connecting

\* C7: connect() always returns, and when the handshake has not completed by
\* the connect timeout it returns ConnectionFailed, the state is
\* Failed("Connection timed out") and the client holds no stream of that
\* attempt (its stream is the one it held before the call).
C7_ConnectTimeoutReturns ==
    /\ [](wslast.how = "timeout" =>
            /\ wslast.op = "connect"
            /\ wslast.res = "ConnectionFailed"
            /\ ws_pc = "idle"
            /\ ws_state = Failed("Connection timed out")
            /\ ws_stream = wslast.stream0
            /\ ws_stream # attempts)
    /\ ((ws_pc = "connecting") ~> (ws_pc = "idle"))

\* C7 witness: a connect() whose handshake was still pending after
\* ConnectTimeoutSecs seconds has returned.
C7_Witness ==
    /\ wslast.op = "connect"
    /\ wslast.how = "timeout"
    /\ ws_pc = "idle"

\* C8: disconnect() ends with state Disconnected and no stream, whatever the
\* state and the stream were and whether or not the close frame went out.
C8_DisconnectAlwaysDisconnected ==
    wslast.op = "disconnect" =>
        /\ ws_state = Disconnected
        /\ ws_stream = 0
        /\ ws_pc = "idle"

\* C8 witness: disconnect() was called on a connected client and the close
\* frame could not be sent.
C8_Witness ==
    /\ wslast.op = "disconnect"
    /\ wslast.state0 = Connected
    /\ wslast.stream0 # 0
    /\ wslast.close = "failed"

\* C8 witness of the other states: disconnect() was called without a stream
\* in a state other than Disconnected.
C8_WitnessNoStream ==
    /\ wslast.op = "disconnect"
    /\ wslast.state0.kind \in {"Connecting", "Failed"}
    /\ wslast.stream0 = 0

\* C9: a send_text, send_binary, send_audio or send_init_config on a client
\* that holds no stream returns ConnectionLost, puts nothing on the wire,
\* starts no connection attempt and leaves state and stream as they were.
C9_SendWithoutStream ==
    (wslast.op \in SendOpNames /\ wslast.stream0 = 0) =>
        /\ wslast.res = "ConnectionLost"
        /\ wire = wslast.wire0
        /\ attempts = wslast.attempts0
        /\ ws_pc = "idle"
        /\ ws_state = wslast.state0
        /\ ws_stream = 0

\* C9 witness: send_audio on a client whose stream was dropped by a close
\* frame, the state still being Connected.
C9_Witness ==
    /\ wslast.op = "send_audio"
    /\ wslast.stream0 = 0
    /\ wslast.state0 = Connected

\* C10: the connection state is changed by connect() and disconnect() only:
\* a successful send, a receive that returns a text, binary, ping or pong
\* message, and set_api_key leave it as it was; and is_connected() is true
\* iff the state is exactly Connected.
C10_StateChangesOnlyByConnectDisconnect ==
    /\ (wslast.op \in SendOpNames /\ wslast.res = "Ok") =>
            ws_state = wslast.state0
    /\ (wslast.op = "receive" /\ wslast.res \in {"Text", "Binary", "Ping", "Pong"}) =>
            ws_state = wslast.state0
    /\ ws_state # wslast.state0 => wslast.op \in {"connect", "disconnect"}
    /\ IsConnected(ws_state) <=> ws_state = Connected

\* C10 witness: a ping was received on the stream of an earlier connection
\* while the state was Failed, and the state is still Failed.
C10_Witness ==
    /\ wslast.op = "receive"
    /\ wslast.res = "Ping"
    /\ wslast.state0.kind = "Failed"

\* C11: when receive() gets a close frame it drops the stream and returns
\* Close, and Close is returned exactly once per established connection: a
\* stream that has yielded Close is never held again, so until a later
\* connect() has established a new stream every receive() returns None and
\* every send fails with ConnectionLost.
C11_CloseOncePerConnection ==
    /\ (wslast.op = "receive" /\ wslast.msg = "Close") =>
           (wslast.res = "Close" /\ ws_stream = 0)
    /\ \A i, j \in 1 .. Len(closes) : closes[i] = closes[j] => i = j
    /\ \A i \in 1 .. Len(closes) : ws_stream = 0 \/ ws_stream > closes[i]
    /\ (wslast.op = "receive" /\ wslast.stream0 = 0) => wslast.res = "None"
    /\ (wslast.op \in SendOpNames /\ wslast.stream0 = 0) =>
           wslast.res = "ConnectionLost"

\* C11 witness: after a receive() that returned Close, a send on the same
\* client has failed with ConnectionLost.
C11_Witness ==
    /\ closes # <<>>
    /\ closes[Len(closes)] = attempts
    /\ wslast.op \in SendOpNames
    /\ wslast.res = "ConnectionLost"

\* C11 witness: after a receive() that returned Close, the next receive()
\* has returned None.
C11_WitnessReceive ==
    /\ closes # <<>>
    /\ closes[Len(closes)] = attempts
    /\ wslast.op = "receive"
    /\ wslast.res = "None"

\* C11 witness: a connect() after the close has established a new stream.
C11_WitnessReconnect ==
    /\ closes # <<>>
    /\ ws_stream > closes[Len(closes)]

\* C12: receive() does not block indefinitely: on a client that holds a
\* stream whose peer sends nothing and does not close, a receive() that has
\* been called still eventually returns. (The peer is under no fairness in
\* SpecWsFair: it may stay silent for ever; the timer and the executor are
\* fair.)
C12_ReceiveEventuallyReturns ==
    (ws_pc = "receiving") ~> (ws_pc = "idle")

----------------------------------------------------------------------------
(* Claims about the ScribeClient (SpecScribe, SpecScribeRx, SpecScribeRun) *)

\* C13: on every connection established through ScribeClient::connect() the
\* configure message is the first outbound message: no audio chunk is ever
\* put on a stream on which no configure message has been sent successfully
\* before.
C13_ConfigureBeforeAudio ==
    \A i \in 1 .. Len(wire) :
        wire[i][2] = "input_audio_chunk" =>
            \E j \in 1 .. i - 1 : wire[j] = <<wire[i][1], "configure">>

\* The inbound message m is a text frame that parses as JSON with
\* message_type t.
IsType(m, t) == m.kind = "Text" /\ m.payload.json /\ m.payload.mtype = t

\* The largest element of a non-empty set of numbers.
Max(S) == CHOOSE x \in S : \A y \in S : y <= x

\* The committed transcripts decoded so far, by position in inbound.
Committed == {i \in 1 .. Len(inbound) : IsType(inbound[i], "committed_transcript")}

\* The partial transcripts decoded since the last committed transcript and
\* the last disconnect().
PartialsSince ==
    {i \in Max(Committed \cup {disc_at}) + 1 .. Len(inbound) :
         IsType(inbound[i], "partial_transcript")}

\* C14: after any sequence of decoded inbound messages, current_partial()
\* is the text of the most recent partial_transcript decoded since the last
\* committed_transcript or disconnect() (overwritten, never appended), and
\* empty if there is none; a committed_transcript also records its text as
\* the last final transcript.
C14_PartialIsMostRecent ==
    /\ partial_buffer =
           IF PartialsSince = {} THEN <<>>
           ELSE <<inbound[Max(PartialsSince)].payload.field>>
    /\ last_transcript =
           IF Committed = {} THEN NoField
           ELSE inbound[Max(Committed)].payload.field

\* C14 witness: a second partial transcript with another text has replaced
\* the first.
C14_Witness ==
    /\ sclast.op = "receive_event"
    /\ Cardinality(PartialsSince) >= 2
    /\ sclast.partial0 # <<>>
    /\ partial_buffer # sclast.partial0
    /\ partial_buffer # <<>>

\* C14 witness: a committed transcript has emptied a buffer that held a
\* partial one.
C14_WitnessCommitted ==
    /\ sclast.op = "receive_event"
    /\ sclast.partial0 # <<>>
    /\ IsType(sclast.msg, "committed_transcript")
    /\ partial_buffer = <<>>
    /\ last_transcript = "a"

\* C14 witness: disconnect() has emptied a buffer that held a partial
\* transcript.
C14_WitnessDisconnect ==
    /\ sclast.op = "disconnect"
    /\ sclast.res = "Ok"
    /\ sclast.partial0 # <<>>
    /\ partial_buffer = <<>>

\* C15: every inbound text message that is not valid JSON, or whose
\* message_type is missing or not one of the four known types, yields
\* exactly one Error event and leaves the connection state, the stream, the
\* session id and the partial buffer unchanged.
C15_BadMessageGivesError ==
    ( /\ sclast.op = "receive_event"
      /\ sclast.res = "Some"
      /\ sclast.msg.kind = "Text"
      /\ (~sclast.msg.payload.json \/ sclast.msg.payload.mtype \notin KnownTypes) )
    => /\ sclast.event.type = "Error"
       /\ Len(Produced) = sclast.n0 + 1
       /\ Produced[Len(Produced)] = Tag(sclast.event, Len(inbound))
       /\ ws_state = sclast.state0
       /\ ws_stream = sclast.stream0
       /\ ws_stream # 0
       /\ session_id = sclast.sid0
       /\ partial_buffer = sclast.partial0

\* C15 witness: a text message that is not JSON has arrived on a session
\* that has a session id and a partial transcript.
C15_Witness ==
    /\ sclast.op = "receive_event"
    /\ sclast.res = "Some"
    /\ sclast.msg.kind = "Text"
    /\ ~sclast.msg.payload.json
    /\ sclast.event = Event("Error", "parse_error")
    /\ partial_buffer # <<>>

\* C15 witness: a JSON message of a type the session does not know has
\* arrived.
C15_WitnessUnknownType ==
    /\ sclast.op = "receive_event"
    /\ sclast.res = "Some"
    /\ sclast.msg.kind = "Text"
    /\ sclast.msg.payload.json
    /\ sclast.msg.payload.mtype \notin KnownTypes \cup {NoField}
    /\ sclast.event = Event("Error", "unknown_type")

\* C16: the events obtained from a ScribeClient (by receive_event, or by
\* run() followed by try_receive) are in the order of the inbound messages
\* they were decoded from, exactly one per message: between two methods,
\* the events handed out, followed by those still in the channel, are the
\* events of all the messages received, in order.
C16_EventsInOrder ==
    sc_pc = "idle" =>
        obtained \o event_q =
            [k \in 1 .. Len(inbound) |-> Tag(ParseMessage(inbound[k]), k)]

----------------------------------------------------------------------------
(* Claims about the VoiceActivityDetector (SpecVad)                        *)
(* vad_cls and vad_out are the frames and the results since construction   *)
(* or the last reset().                                                    *)

\* The number of frames classified below threshold at the end of vad_cls.
TrailingQuiet ==
    Max({k \in 0 .. Len(vad_cls) :
             \A j \in Len(vad_cls) - k + 1 .. Len(vad_cls) : ~vad_cls[j]})

\* The frames j - n + 1 .. j exist and were all classified below threshold.
QuietRunAt(j, n) == j >= n /\ \A k \in j - n + 1 .. j : ~vad_cls[k]

\* C17: with silence_timeout_frames = T >= 1, once detect has returned
\* Speech it keeps returning Speech until T consecutive frames have been
\* classified below threshold, and then it stops; a frame classified above
\* threshold before the T-th one resets the silence count to 0. (With T = 2
\* and min_speech_frames = 1 the frames loud, quiet, quiet, any give Speech,
\* Speech, Ending, Silence.)
C17_SpeechHeldUntilSilence ==
    /\ \A i \in 1 .. Len(vad_out) - 1 :
           vad_out[i] = "Speech" =>
               ( vad_out[i + 1] # "Speech"
                 <=> QuietRunAt(i + 1, vad_config.silence_timeout_frames) )
    /\ vad.state = "Speech" => vad.silence_frames = TrailingQuiet
    /\ ( /\ vad_config.silence_timeout_frames = 2
         /\ vad_config.min_speech_frames = 1
         /\ Len(vad_cls) = 4
         /\ SubSeq(vad_cls, 1, 3) = <<TRUE, FALSE, FALSE>> )
       => vad_out = <<"Speech", "Speech", "Ending", "Silence">>

\* C17 witness: with T = 2 a loud frame after one quiet frame has kept the
\* detector in Speech, and two quiet frames in a row have then ended it.
C17_Witness ==
    /\ vad_config.silence_timeout_frames = 2
    /\ vad_config.min_speech_frames = 1
    /\ vad_cls = <<TRUE, FALSE, TRUE, FALSE, FALSE>>
    /\ vad_out = <<"Speech", "Speech", "Speech", "Speech", "Ending">>

\* C17 witness: the frames of the example.
C17_WitnessExample ==
    /\ vad_config.silence_timeout_frames = 2
    /\ vad_config.min_speech_frames = 1
    /\ vad_config.smoothing_factor.num = 0
    /\ vad_cls = <<TRUE, FALSE, FALSE, TRUE>>
    /\ vad_out = <<"Speech", "Speech", "Ending", "Silence">>

\* The frame with which the speech segment that is left at frame i began.
SegmentStart(i) ==
    Max({s \in 1 .. i - 1 :
             /\ s = 1 \/ vad_out[s - 1] # "Speech"
             /\ \A k \in s .. i - 1 : vad_out[k] = "Speech"})

\* The speech frames of the segment that is left at frame i.
SegmentSpeech(i) == Cardinality({j \in SegmentStart(i) .. i : vad_cls[j]})

\* C18: when the silence counter reaches silence_timeout_frames in Speech,
\* detect returns Ending if the speech frames counted since entering Speech
\* are at least min_speech_frames, and Silence otherwise; no Ending is ever
\* returned for a segment with fewer than min_speech_frames speech frames.
C18_EndingNeedsMinSpeech ==
    \A i \in 1 .. Len(vad_out) :
        /\ vad_out[i] = "Ending" => (i > 1 /\ vad_out[i - 1] = "Speech")
        /\ (i > 1 /\ vad_out[i - 1] = "Speech" /\ vad_out[i] # "Speech") =>
               vad_out[i] = IF SegmentSpeech(i) >= vad_config.min_speech_frames
                            THEN "Ending" ELSE "Silence"

\* C18 witness: a segment with fewer speech frames than min_speech_frames
\* has ended, and detect has returned Silence.
C18_Witness ==
    /\ vad_config.min_speech_frames >= 2
    /\ Len(vad_out) >= 2
    /\ vad_out[Len(vad_out) - 1] = "Speech"
    /\ vad_out[Len(vad_out)] = "Silence"
    /\ SegmentSpeech(Len(vad_out)) < vad_config.min_speech_frames

\* C18 witness: a segment with min_speech_frames speech frames, not all in a
\* row, has ended with Ending.
C18_WitnessEnding ==
    /\ vad_config.min_speech_frames = 2
    /\ vad_config.silence_timeout_frames = 2
    /\ vad_cls = <<TRUE, FALSE, TRUE, FALSE, FALSE>>
    /\ vad_out[5] = "Ending"

\* C19: Ending is a one-shot pulse: the detect call after one that returned
\* Ending returns Silence whatever frame it is given, also a loud one; so
\* Ending is never returned twice in a row and a speech segment gives at
\* most one Ending.
C19_EndingIsOneShot ==
    /\ \A i \in 1 .. Len(vad_out) - 1 :
           vad_out[i] = "Ending" => vad_out[i + 1] = "Silence"
    /\ \A i, j \in 1 .. Len(vad_out) :
           (i < j /\ vad_out[i] = "Ending" /\ vad_out[j] = "Ending") =>
               \E k \in i + 1 .. j - 1 : vad_out[k] = "Speech"
    /\ vad.state = "Ending" =>
           \A frame \in Frames : Detect(vad_config, vad, frame).state = "Silence"

\* C19 witness: the frame after the one that returned Ending was classified
\* as speech, and detect has returned Silence.
C19_Witness ==
    /\ Len(vad_out) >= 2
    /\ vad_out[Len(vad_out) - 1] = "Ending"
    /\ vad_cls[Len(vad_cls)]
    /\ vad_out[Len(vad_out)] = "Silence"

\* C20: reset() in any reachable state returns the detector to its initial
\* state (Silence, both counters 0, smoothed energy 0), and from then on
\* every frame sequence gives the results it gives on a detector freshly
\* constructed with the same configuration.
C20_ResetRestoresFresh ==
    /\ vadlast.op = "reset" =>
           /\ vad.state = "Silence"
           /\ vad.silence_frames = 0
           /\ vad.speech_frames = 0
           /\ vad.smoothed_energy = 0
    /\ (vadlast.op = "detect" /\ vadlast.resets > 0) =>
           /\ vadlast.out = vadlast.fresh_out
           /\ vad = vad_fresh

\* C20 witness: reset() was called in Speech, with both counters and the
\* smoothed energy above 0.
C20_Witness ==
    /\ vadlast.op = "reset"
    /\ vadlast.pre.state = "Speech"
    /\ vadlast.pre.silence_frames > 0
    /\ vadlast.pre.speech_frames > 0
    /\ vadlast.pre.smoothed_energy > 0

\* C20 witness: after a reset() in Speech the detector has found speech
\* again.
C20_WitnessAfter ==
    /\ vadlast.op = "detect"
    /\ vadlast.resets > 0
    /\ vadlast.out = "Speech"
    /\ Len(vad_out) >= 2

\* The number of frames classified as speech at the end of vad_cls.
TrailingSpeech ==
    Max({k \in 0 .. Len(vad_cls) :
             \A j \in Len(vad_cls) - k + 1 .. Len(vad_cls) : vad_cls[j]})

\* C29: the two counters count consecutive frames: while the state is
\* Speech, speech_frame_count() is the number of consecutive frames
\* classified as speech that end at the most recent frame (a frame
\* classified as silence breaks the run), and the silence counter is the
\* number of consecutive frames classified as silence that end there.
C29_CountersAreConsecutive ==
    vad.state = "Speech" =>
        /\ vad.speech_frames = TrailingSpeech
        /\ vad.silence_frames = TrailingQuiet

----------------------------------------------------------------------------
(* Further claims about the WebSocketClient (SpecWs)                       *)

\* C30: between operations the state is Connected if and only if a stream
\* is held: while is_connected() is true no send fails with ConnectionLost
\* (also after a close frame was received), and while the state is
\* Disconnected or Failed no stream is held (also when connect() fails on a
\* client that was already connected).
C30_ConnectedIffStream ==
    ws_pc = "idle" =>
        /\ (ws_state.kind = "Connected") <=> (ws_stream # 0)
        /\ (wslast.op \in {"send_text", "send_binary", "send_audio",
                            "send_init_config"}
              /\ wslast.state0.kind = "Connected")
               => wslast.res # "ConnectionLost"
        /\ ws_state.kind \in {"Disconnected", "Failed"} => ws_stream = 0

----------------------------------------------------------------------------
(* Claims about the resamplers (SpecResampler, SpecResamplerFair)          *)

\* C21: an AudioResampler with equal rates reports needs_resampling() ==
\* false, and its process(input) returns input unchanged for every input
\* length, the empty input included, whatever was processed before.
C21_EqualRatesIdentity ==
    /\ rs_equal => ~NeedsResampling(rs_equal)
    /\ (rs_equal /\ rslast.op = "ar_process") =>
           /\ rslast.res = "Ok"
           /\ rslast.out = rslast.input
           /\ rslast.handed = <<>>

\* C21 witness: process has returned a three-sample input with equal rates,
\* after an earlier call.
C21_Witness ==
    /\ rs_equal
    /\ rslast.op = "ar_process"
    /\ rslast.prev = "ar_process"
    /\ rslast.input = <<1, 2, 3>>
    /\ rslast.out = <<1, 2, 3>>

\* C21 witness: the empty input.
C21_WitnessEmpty ==
    /\ rs_equal
    /\ rslast.op = "ar_process"
    /\ rslast.input = <<>>
    /\ rslast.res = "Ok"

\* The k-th chunk of a process call that began with drained0 samples drained.
ChunkInOrder(k) == Slice(rslast.drained0 + (k - 1) * ChunkSize, ChunkSize)

\* The chunks the BatchResampler handed over in the last call are whole
\* and in input order.
ChunksWholeInOrder ==
    \A k \in 1 .. Len(rslast.handed) :
        /\ rslast.op \in {"process", "flush"} =>
               Len(rslast.handed[k]) = ChunkSize
        /\ rslast.op = "process" => rslast.handed[k] = ChunkInOrder(k)

\* The buffer is what was given and has not been drained.
BufferIsSuffix == br_buffer = Slice(rs_drained, rs_fed - rs_drained)

\* C22 as stated: for a BatchResampler with differing rates, every chunk
\* handed to the inner resampler has exactly chunk_size samples, the chunks
\* are taken in input order, and after each process call the buffer holds
\* fewer than chunk_size samples and is the not yet consumed suffix of the
\* inputs.
C22_ChunksAndRemainder ==
    ~rs_equal =>
        /\ ChunksWholeInOrder
        /\ (br_pc = "idle" /\ rslast.op = "process") =>
               /\ Len(br_buffer) < ChunkSize
               /\ BufferIsSuffix

\* C22 amended: the chunks are whole and in input order, and the buffer is
\* the not yet consumed suffix of the inputs after every process call; it
\* holds fewer than chunk_size samples after each call that returned Ok (a
\* call that returned ResamplingFailed leaves the failed chunk in it).
C22_ChunksAndRemainderOnOk ==
    ~rs_equal =>
        /\ ChunksWholeInOrder
        /\ (br_pc = "idle" /\ rslast.op = "process") =>
               /\ rslast.res = "Ok" => Len(br_buffer) < ChunkSize
               /\ rslast.res # "Ok" => Len(br_buffer) >= ChunkSize
               /\ BufferIsSuffix

\* C22 witness: one call has consumed two chunks, the first of them made of
\* the remainder of an earlier call and new input, and has kept a remainder.
C22_Witness ==
    /\ ~rs_equal
    /\ br_pc = "idle"
    /\ rslast.op = "process"
    /\ rslast.res = "Ok"
    /\ rslast.buffer0 # <<>>
    /\ Len(rslast.handed) = 2
    /\ br_buffer # <<>>

\* C22 witness: a process call has failed on its second chunk.
C22_WitnessFailed ==
    /\ ~rs_equal
    /\ br_pc = "idle"
    /\ rslast.op = "process"
    /\ rslast.res = "ResamplingFailed"
    /\ Len(rslast.handed) = 2

\* C23 as stated: flush() with n retained samples, 0 < n < chunk_size,
\* hands the inner resampler exactly one chunk, the n samples followed by
\* zeros, and leaves the buffer empty; with an empty buffer it resamples
\* nothing and returns empty output, so a second flush() in a row returns
\* empty output.
C23_FlushPadsAndEmpties ==
    rslast.op = "flush" =>
        /\ (0 < Len(rslast.buffer0) /\ Len(rslast.buffer0) < ChunkSize) =>
               /\ rslast.handed =
                      <<rslast.buffer0
                          \o [i \in 1 .. ChunkSize - Len(rslast.buffer0) |-> 0]>>
               /\ br_buffer = <<>>
        /\ rslast.buffer0 = <<>> =>
               /\ rslast.handed = <<>>
               /\ rslast.res = "Ok"
               /\ rslast.out = <<>>
        /\ rslast.prev = "flush" => rslast.out = <<>>

\* C23 amended: flush() with n retained samples, 0 < n < chunk_size, hands
\* the inner resampler exactly one chunk, the n samples followed by zeros;
\* it leaves the buffer empty if it returns Ok and as it was if it returns
\* ResamplingFailed. With an empty buffer it resamples nothing and returns
\* empty output, so a flush() right after a flush() that returned Ok
\* returns empty output.
C23_FlushPadsAndEmptiesOnOk ==
    rslast.op = "flush" =>
        /\ (0 < Len(rslast.buffer0) /\ Len(rslast.buffer0) < ChunkSize) =>
               /\ rslast.handed =
                      <<rslast.buffer0
                          \o [i \in 1 .. ChunkSize - Len(rslast.buffer0) |-> 0]>>
               /\ rslast.res = "Ok" => br_buffer = <<>>
               /\ rslast.res # "Ok" => br_buffer = rslast.buffer0
        /\ rslast.buffer0 = <<>> =>
               /\ rslast.handed = <<>>
               /\ rslast.res = "Ok"
               /\ rslast.out = <<>>
        /\ (rslast.prev = "flush" /\ rslast.prev_res = "Ok") =>
               rslast.out = <<>>

\* C23 witness: flush() has padded a remainder and returned its output.
C23_Witness ==
    /\ rslast.op = "flush"
    /\ 0 < Len(rslast.buffer0)
    /\ Len(rslast.buffer0) < ChunkSize
    /\ rslast.res = "Ok"
    /\ rslast.out # <<>>

\* C23 witness: the second of two flush() calls in a row.
C23_WitnessSecond ==
    /\ rslast.op = "flush"
    /\ rslast.prev = "flush"
    /\ rslast.prev_res = "Ok"
    /\ rs_fed > 0

\* C23 witness: flush() has failed on the padded chunk.
C23_WitnessFailed ==
    /\ rslast.op = "flush"
    /\ Len(rslast.buffer0) < ChunkSize
    /\ rslast.res = "ResamplingFailed"

RECURSIVE OutputOf(_)
\* The output of the chunks handed to the rubato resampler, in order.
OutputOf(chunks) ==
    IF chunks = <<>> THEN <<>>
    ELSE Resampled(Head(chunks)) \o OutputOf(Tail(chunks))

\* C24: a resampling failure is reported, never swallowed: when the inner
\* resampler has failed on a chunk, AudioResampler.process,
\* BatchResampler.process and BatchResampler.flush return ResamplingFailed,
\* and none of them returns Ok without the output of a chunk it handed over.
C24_FailureIsReported ==
    (br_pc = "idle" /\ rslast.op \in {"ar_process", "process", "flush"}) =>
        /\ rslast.failed => rslast.res = "ResamplingFailed"
        /\ (rslast.res = "Ok" /\ ~rs_equal) =>
               rslast.out = OutputOf(rslast.handed)

\* C24 witness: BatchResampler.process has failed on its second chunk.
C24_Witness ==
    /\ br_pc = "idle"
    /\ rslast.op = "process"
    /\ rslast.failed
    /\ Len(rslast.handed) = 2

\* C24 witness: BatchResampler.flush has failed.
C24_WitnessFlush ==
    /\ rslast.op = "flush"
    /\ rslast.failed

\* C24 witness: AudioResampler.process has failed.
C24_WitnessDirect ==
    /\ rslast.op = "ar_process"
    /\ rslast.failed

\* C28: for a BatchResampler with equal rates process(input) terminates for
\* every input, the empty input included.
C28_EqualRatesProcessReturns ==
    (rs_equal /\ br_pc = "loop") ~> (br_pc = "idle")

\* With differing rates every process call returns.
ProcessReturns == (~rs_equal /\ br_pc = "loop") ~> (br_pc = "idle")

----------------------------------------------------------------------------
(* Claims about the AudioCapturer (SpecCapturer)                           *)

\* C25: the capture callback writes into the RingBuffer only while the
\* running flag is set: an invocation that begins after stop() has cleared
\* the flag writes nothing, and every sample in the RingBuffer was written
\* by a callback that observed the flag set.
C25_CallbackWritesOnlyWhileRunning ==
    /\ cblast.op = "callback" => (cblast.wrote <=> cblast.saw)
    /\ (cblast.op = "callback" /\ cblast.during = "stop_stored") =>
           ~cblast.wrote

\* C25 witness: a callback invocation began after stop() had cleared the
\* flag and before the stream was dropped, and returned without writing.
C25_Witness ==
    /\ cblast.op = "callback"
    /\ cblast.during = "stop_stored"
    /\ ~cblast.saw
    /\ ~cblast.wrote

\* C25 witness: an invocation that had observed the flag set wrote after
\* stop() had returned.
C25_WitnessInFlight ==
    /\ cblast.op = "callback"
    /\ cblast.saw
    /\ cblast.wrote
    /\ cblast.ended > cblast.epoch

\* C25 witness: an invocation began in start() before the flag was set and
\* wrote nothing.
C25_WitnessBeforeStart ==
    /\ cblast.op = "callback"
    /\ cblast.during \in {"start_built", "start_played"}
    /\ ~cblast.wrote

C26_WitnessFailedStart ==
    /\ cap_pc = "idle"
    /\ caplast.op = "start"
    /\ caplast.how = "play failed"
    /\ cap_builds = 1

\* C26 witness: stop() on a capturer that holds no stream.
C26_WitnessIdleStop ==
    /\ cap_pc = "idle"
    /\ caplast.op = "stop"
    /\ caplast.stream0 = 0

\* C27: stopping resets the RingBuffer: when stop() has returned and no
\* callback has written since, the buffer is empty, so read_frame returns
\* None until a new start() delivers samples, and no sample captured before
\* a stop is returned afterwards.
C27_StopClearsBuffer ==
    /\ (cap_pc = "idle" /\ caplast.op = "stop" /\ cb.pc = "idle"
          /\ cblast.ended < cap_epoch) =>
           Available = 0
    /\ (caplast.op = "read_frame" /\ caplast.some) =>
           \A i \in 1 .. Len(caplast.data) : caplast.data[i] = cap_epoch


----------------------------------------------------------------------------
(* Further claims about the ScribeClient (SpecScribeRx)                    *)

\* C31: the session produces a Disconnected event, and receive_response
\* returns ConnectionLost, only when the transport has received a close
\* frame: every Disconnected event handed out was decoded from a close
\* frame, and so was the event behind a ConnectionLost; a ping, pong or
\* binary frame never gives a Disconnected event.
C31_DisconnectedOnlyOnClose ==
    /\ \A i \in 1 .. Len(obtained) :
           obtained[i].type = "Disconnected" =>
               inbound[obtained[i].n].kind = "Close"
    /\ ( /\ sclast.op = "receive_event"
         /\ sclast.res = "Some"
         /\ ReceiveResponse(sclast.event).res = "ConnectionLost" )
       => sclast.msg.kind = "Close"

----------------------------------------------------------------------------
(* Further claims about the VoiceActivityDetector (SpecVad)                *)

\* C40: in every reachable state of a detector with silence_timeout_frames
\* >= 1, the speech-frame counter is 0 in Silence and in Ending, and in
\* Speech the speech-frame counter is at least 1 and the silence counter is
\* less than silence_timeout_frames.
C40_CountersMatchState ==
    vad_config.silence_timeout_frames >= 1 =>
        /\ vad.state \in {"Silence", "Ending"} => vad.speech_frames = 0
        /\ vad.state = "Speech" =>
               /\ vad.speech_frames >= 1
               /\ vad.silence_frames < vad_config.silence_timeout_frames

\* C40 witness: a segment has ended at the timeout after a quiet frame that
\* the detector sat out in Speech.
C40_Witness ==
    /\ vad_config.silence_timeout_frames = 2
    /\ Len(vad_out) >= 3
    /\ vad_out[Len(vad_out) - 1] = "Speech"
    /\ ~vad_cls[Len(vad_cls) - 1]
    /\ vad.state \in {"Silence", "Ending"}
    /\ vad.speech_frames = 0

\* C40 witness: the detector is in Speech one quiet frame short of the
\* timeout.
C40_WitnessSpeech ==
    /\ vad_config.silence_timeout_frames = 2
    /\ vad.state = "Speech"
    /\ vad.silence_frames = 1
    /\ vad.speech_frames >= 2

\* C40 witness: reset() was called in the middle of a segment.
C40_WitnessReset ==
    /\ vadlast.op = "reset"
    /\ vadlast.pre.state = "Speech"
    /\ vadlast.pre.speech_frames >= 1
    /\ vad.state = "Silence"

----------------------------------------------------------------------------
(* Further claims about the connection state (SpecScribe)                  *)

\* The results with which a call reports a failure of the connection.
ConnectionFailures ==
    {"AuthenticationFailed", "ConnectionFailed", "SendFailed", "ConnectionLost"}

C35_WitnessClose ==
    /\ wslast.op = "receive"
    /\ wslast.msg = "Close"
    /\ Len(wire) >= 1
    /\ ws_state.kind = "Connected"

\* C35 witness: a send has failed on an open connection.
C35_WitnessSendFailed ==
    /\ wslast.res = "SendFailed"
    /\ ws_stream # 0

\* C35 witness: the connection was lost and a send found no stream.
C35_WitnessLost ==
    /\ wslast.res = "ConnectionLost"
    /\ closes # <<>>

----------------------------------------------------------------------------
(* Further claims about the session fields (SpecScribeRx)                  *)

\* The inbound messages that are session_started messages.
SessionStarts == {k \in 1 .. Len(inbound) : IsType(inbound[k], "session_started")}

\* C39: session_id() is None until a session_started message has been
\* decoded and is from then on the session id of the most recent one;
\* disconnect() clears the partial buffer and leaves the session id and the
\* last final transcript as they were, and stop() leaves all three as they
\* were.
C39_SessionFieldsKept ==
    /\ session_id = IF SessionStarts = {} THEN NoField
                    ELSE StrOr(inbound[Max(SessionStarts)].payload.field,
                               "unknown")
    /\ (sclast.op = "disconnect" /\ sclast.res = "Ok") =>
           /\ partial_buffer = <<>>
           /\ session_id = sclast.sid0
           /\ last_transcript = sclast.last0
    /\ (sclast.op = "stop" /\ sclast.res = "Ok") =>
           /\ partial_buffer = sclast.partial0
           /\ session_id = sclast.sid0
           /\ last_transcript = sclast.last0

\* C39 witness: a second session_started message with another id has been
\* decoded.
C39_Witness ==
    /\ Cardinality(SessionStarts) >= 2
    /\ sclast.op = "receive_event"
    /\ sclast.event.type = "SessionStarted"
    /\ sclast.sid0 \notin {NoField, session_id}

\* C39 witness: disconnect() has returned on a session that had a session
\* id and a partial transcript.
C39_WitnessDisconnect ==
    /\ sclast.op = "disconnect"
    /\ sclast.res = "Ok"
    /\ sclast.sid0 # NoField
    /\ sclast.partial0 # <<>>

\* C39 witness: disconnect() has returned on a session that had a final
\* transcript.
C39_WitnessDisconnectFinal ==
    /\ sclast.op = "disconnect"
    /\ sclast.res = "Ok"
    /\ sclast.last0 # NoField

\* C39 witness: stop() has returned on a session that had a session id and
\* a partial transcript.
C39_WitnessStop ==
    /\ sclast.op = "stop"
    /\ sclast.res = "Ok"
    /\ sclast.sid0 # NoField
    /\ sclast.partial0 # <<>>

----------------------------------------------------------------------------
(* Further claims about run() (SpecScribeRunFair)                          *)

\* The points of run().
RunPoints == {"run_top", "run_receive", "run_send", "run_sleep"}

\* C38: the message loop run() eventually returns after the peer has closed
\* the connection: it neither spins on a connection that has no stream any
\* more nor blocks on the full event queue.
C38_RunReturnsAfterClose ==
    (sc_pc \in RunPoints /\ closes # <<>> /\ ws_stream = 0)
        ~> (sc_pc \notin RunPoints)

----------------------------------------------------------------------------
(* Claims about available() beside write, read and clear (SpecAvail)       *)

\* C33: a call of available() made without the lock while write, read or
\* clear run on other threads returns the number of samples that were
\* stored at some instant of the call. In particular the value lies between
\* the least and the greatest number of samples that can have been stored
\* at an instant of the call: it never reports samples that were not stored.
C33_AvailableIsLinearizable ==
    at.calls > 0 => at.least <= at.ret /\ at.ret <= at.most

----------------------------------------------------------------------------
(* Claims about the configuration of the clients (SpecConfig)              *)

\* C34: a WebSocketClient created with with_config(c) uses c for its
\* connections: connect() dials c.url and waits at most
\* c.connect_timeout_secs; so a ScribeClient created with endpoint e
\* connects to e.
C34_ConfigIsUsed ==
    (ws_pc = "connecting" /\ cfg_given.by # "new") => Dialed = cfg_given.config


----------------------------------------------------------------------------
(* C37: concurrent start_listen, concurrent stop_listen                    *)

\* Both tasks have returned from a command op, the two executions
\* overlapped, and the recording flag was `recording` when each was given.
RanTogether(op, recording) ==
    \A t \in Tasks : /\ ~Executing(t)
                     /\ cmd[t].op = op
                     /\ cmd[t].conc
                     /\ cmd[t].rec0 = recording

\* C37: of two start_listen commands that run concurrently while the
\* application is not recording exactly one returns Ok and the other returns
\* "Already recording"; of two concurrent stop_listen commands while
\* recording exactly one returns Ok and the other "Not recording".
C37_OneListenCommandWins ==
    /\ RanTogether("start_listen", FALSE) =>
           {cmd[t].res : t \in Tasks} = {"Ok", "Already recording"}
    /\ RanTogether("stop_listen", TRUE) =>
           {cmd[t].res : t \in Tasks} = {"Ok", "Not recording"}


----------------------------------------------------------------------------
(* C36: the connected flag of AppState and the state of the session        *)

\* No command is executing.
Quiet == \A t \in Tasks : ~Executing(t)

\* C36: whenever no command is executing, AppState.is_connected() equals
\* ScribeClient.is_connected(), after any sequence of connect_scribe,
\* disconnect_scribe, send_audio_chunk and receive_transcription commands
\* and server events, failed connects included.
C36_ConnectedFlagAgrees == Quiet => (app_connected = IsConnected(ws_state))

----------------------------------------------------------------------------
(* C32: a pending receive_transcription and the other commands             *)

\* A task waits in receive_transcription for a message of the server.
ReceivePending ==
    /\ sess_lock # 0
    /\ cmd[sess_lock].op = "receive_transcription"
    /\ sc_pc = "receive_event"

\* Task t has been given one of the other commands and has not returned.
OtherIssued(t) ==
    /\ Executing(t)
    /\ cmd[t].op \in {"send_audio_chunk", "disconnect_scribe",
                      "get_connection_status"}

\* C32: a send_audio_chunk, disconnect_scribe or get_connection_status
\* command issued while a receive_transcription command waits for a server
\* message eventually completes, even if the server sends no message before
\* it has received audio.
C32_PendingReceiveBlocksNobody ==
    \A t \in Tasks : (ReceivePending /\ OtherIssued(t)) ~> ~Executing(t)
=============================================================================
